---- MODULE Spec2Model ----
(***************************************************************************)
(* A model of the QuickStuff data-cleaning scripts:                        *)
(*   add_NAISC.py      NAICS hierarchy load, split_chain, clean_text,      *)
(*                     fuzzy_naics and the row loop                        *)
(*   phone_cleaner.py  PHONE_RE, _clean_local, _label_for, extract_numbers *)
(* Python strings are sequences of one-character strings; a Python value   *)
(* that need not be a string is a record [ty, v].                          *)
(***************************************************************************)
EXTENDS Integers, Sequences, FiniteSets, TLC

VARIABLES
    pc,             \* position of the script / driver
    structFile,     \* rows of the taxonomy CSV (NAICS_CSV_STRUCT)
    STRUCT,         \* load_structure's frame, in file order
    TITLE_BY_CODE,  \* clean_code -> Class title
    NAICS_CHOICES,  \* list of clean titles, one per row
    TITLE_TO_CODE,  \* clean title -> clean_code
    df,             \* the frame read from IN_FILE: [columns, rows]
    idx,            \* the number of rows the row loop has processed
    newcols,        \* the eight result lists the row loop appends to
    scorer,         \* the values of fuzz.token_set_ratio met so far: query -> phrase -> score
    written,        \* what the script wrote: the frame of OUT_FILE and the choice lists
    input,          \* the argument the driver hands to the function under study
    call,           \* the last function call made: [fn, arg, ret]
    blocks,         \* Notes export: the record blocks the file was split into
    records,        \* Notes export: the dict parse_block made of each block so far
    header,         \* Notes export: the union header
    table,          \* Notes export: the rows written to the output file
    companies,      \* company matcher: the rows of Companies.csv with their norm_ columns
    tracker,        \* company matcher: the rows of the tracker with norm_query and the Matched columns
    ridx,           \* company matcher: the number of tracker rows the fill loop has done
    saved           \* company matcher: the rows written to FullReprisalTracker_updated.csv

tables == <<STRUCT, TITLE_BY_CODE, NAICS_CHOICES, TITLE_TO_CODE>>
rowVars == <<df, idx, newcols, scorer, written>>
notesVars == <<blocks, records, header, table>>
matchVars == <<companies, tracker, ridx, saved>>
vars == <<pc, structFile, tables, rowVars, input, call, notesVars, matchVars>>

-----------------------------------------------------------------------------
(* Python values and strings *)

Str(s)  == [ty |-> "str", v |-> s]
PyNone  == [ty |-> "NoneType", v |-> <<"N", "o", "n", "e">>]
PyNaN   == [ty |-> "float", v |-> <<"n", "a", "n">>]
PyInt(s) == [ty |-> "int", v |-> s]

Digits == {"0", "1", "2", "3", "4", "5", "6", "7", "8", "9"}

Range(s) == {s[i] : i \in 1..Len(s)}

Min(a, b) == IF a < b THEN a ELSE b
Max(a, b) == IF a > b THEN a ELSE b

\* s[a:b] of Python, 0-based, end exclusive, clipped to the string
Slice(s, a, b) ==
    LET lo == Max(0, a)
        hi == Min(Len(s), b)
    IN  IF hi <= lo THEN <<>> ELSE SubSeq(s, lo + 1, hi)

Repeat(c, n) == [i \in 1..n |-> c]

\* str.zfill(width): pad with "0" on the LEFT
zfill(s, width) == IF Len(s) >= width THEN s ELSE Repeat("0", width - Len(s)) \o s

\* str.ljust(width, "0"): pad with "0" on the RIGHT
ljust0(s, width) == IF Len(s) >= width THEN s ELSE s \o Repeat("0", width - Len(s))

\* str.rstrip("0")
RECURSIVE rstrip0(_)
rstrip0(s) == IF s # <<>> /\ s[Len(s)] = "0" THEN rstrip0(SubSeq(s, 1, Len(s) - 1)) ELSE s

\* str.isdigit()
isdigit(s) == s # <<>> /\ Range(s) \subseteq Digits

Upper == [c \in {"a","b","c","d","e","f","g","h","i","j","k","l","m","n","o","p","q","r","s","t","u","v","w","x","y","z"} |->
    CASE c = "a" -> "A" [] c = "b" -> "B" [] c = "c" -> "C" [] c = "d" -> "D"
      [] c = "e" -> "E" [] c = "f" -> "F" [] c = "g" -> "G" [] c = "h" -> "H"
      [] c = "i" -> "I" [] c = "j" -> "J" [] c = "k" -> "K" [] c = "l" -> "L"
      [] c = "m" -> "M" [] c = "n" -> "N" [] c = "o" -> "O" [] c = "p" -> "P"
      [] c = "q" -> "Q" [] c = "r" -> "R" [] c = "s" -> "S" [] c = "t" -> "T"
      [] c = "u" -> "U" [] c = "v" -> "V" [] c = "w" -> "W" [] c = "x" -> "X"
      [] c = "y" -> "Y" [] c = "z" -> "Z"]

LowerLetters == DOMAIN Upper
UpperLetters == {Upper[c] : c \in LowerLetters}
Letters == LowerLetters \cup UpperLetters

LowerChar(c) == IF c \in UpperLetters THEN CHOOSE l \in LowerLetters : Upper[l] = c ELSE c
UpperChar(c) == IF c \in LowerLetters THEN Upper[c] ELSE c

\* str.lower()
lower(s) == [i \in 1..Len(s) |-> LowerChar(s[i])]

\* whitespace of str.strip() and of \s
Space == {" ", "\t", "\n", "\r"}

RECURSIVE lstripSet(_, _)
lstripSet(s, cs) == IF s # <<>> /\ s[1] \in cs THEN lstripSet(Tail(s), cs) ELSE s

RECURSIVE rstripSet(_, _)
rstripSet(s, cs) ==
    IF s # <<>> /\ s[Len(s)] \in cs THEN rstripSet(SubSeq(s, 1, Len(s) - 1), cs) ELSE s

\* str.strip() and str.strip(chars)
stripSet(s, cs) == rstripSet(lstripSet(s, cs), cs)
strip(s) == stripSet(s, Space)

\* dict.get(key, default) on a function standing for a dict
Get(d, k, default) == IF k \in DOMAIN d THEN d[k] ELSE default

EmptyDict == [k \in {} |-> <<>>]

-----------------------------------------------------------------------------
(* add_NAISC.py, section 2 and 3: the hierarchy and the look-up tables *)

L2LEVEL == [n \in 2..6 |->
    CASE n = 2 -> "Sector" [] n = 3 -> "Subsector" [] n = 4 -> "Industry group"
      [] n = 5 -> "Industry" [] n = 6 -> "Canadian industry"]

\* the rows a taxonomy file may hold: Code and Class title columns
TaxonomyPool == <<
    [Code |-> <<"1","1">>,                 Class_title |-> <<"A","g">>],
    [Code |-> <<"1","1","1">>,             Class_title |-> <<"C","r","o","p">>],
    [Code |-> <<"1","1","1","1">>,         Class_title |-> <<"O","i","l">>],
    [Code |-> <<"1","1","1","1","1">>,     Class_title |-> <<"S","o","y">>],
    [Code |-> <<"1","1","1","1","1","0">>, Class_title |-> <<"S","o","y","a">>],
    [Code |-> <<"1","1","1","1","2","0">>, Class_title |-> <<"s","o","y"," ">>] >>

RECURSIVE SelectRows(_, _, _)
SelectRows(pool, keep, i) ==
    IF i > Len(pool) THEN <<>>
    ELSE (IF i \in keep THEN <<pool[i]>> ELSE <<>>) \o SelectRows(pool, keep, i + 1)

\* the taxonomy files considered: every selection of pool rows, in pool order
TaxonomyFiles == {SelectRows(TaxonomyPool, keep, 1) : keep \in SUBSET (1..Len(TaxonomyPool))}

\* line 69: df["Code"].str.zfill(6)
CleanCode(code) == zfill(code, 6)

\* line 74: clean_code.rstrip("0").len().map(L2LEVEL); a length outside 2..6 maps to NaN
LevelName(clean_code) ==
    LET n == Len(rstrip0(clean_code))
    IN  IF n \in DOMAIN L2LEVEL THEN L2LEVEL[n] ELSE "NaN"

load_structure(file) ==
    [i \in 1..Len(file) |->
        [clean_code  |-> CleanCode(file[i].Code),
         Code        |-> file[i].Code,
         Class_title |-> file[i].Class_title,
         level_name  |-> LevelName(CleanCode(file[i].Code))]]

\* a dict that kept the first entry of a key: a mutant
FirstIndexOf(keys, k) ==
    CHOOSE i \in 1..Len(keys) :
        /\ keys[i] = k
        /\ \A j \in 1..(i - 1) : keys[j] # k

\* a dict built from a list of keys: a later entry overwrites an earlier one, so a
\* key stands for its last position
LastIndexOf(keys, k) ==
    CHOOSE i \in 1..Len(keys) :
        /\ keys[i] = k
        /\ \A j \in (i + 1)..Len(keys) : keys[j] # k

\* the index column of STRUCT
CleanCodes(struct) == [i \in 1..Len(struct) |-> struct[i].clean_code]

\* line 85: STRUCT["Class title"].to_dict()
TitleByCode(struct) ==
    [k \in Range(CleanCodes(struct)) |->
        struct[LastIndexOf(CleanCodes(struct), k)].Class_title]

\* line 88: naics_df["Class title"].str.strip().str.lower()
CleanTitle(title) == lower(strip(title))

\* line 90
NaicsChoices(struct) == [i \in 1..Len(struct) |-> CleanTitle(struct[i].Class_title)]

\* lines 91-92: dict(zip(clean_title, clean_code))
TitleToCode(struct) ==
    [t \in Range(NaicsChoices(struct)) |->
        struct[LastIndexOf(NaicsChoices(struct), t)].clean_code]

\* a Python exception leaving the function
Raised(what) == [raised |-> what]

\* split_chain with the TITLE_BY_CODE.get(key, "") look-ups written TITLE_BY_CODE[key]
split_chain_subscript(titles, x) ==
    IF x.ty # "str" \/ ~isdigit(x.v)
    THEN [k \in {"Sector", "Subsector", "Industry_group", "Industry", "Canadian_industry", "Class_desc"} |-> <<>>]
    ELSE LET code6 == zfill(x.v, 6)
             keys == {ljust0(Slice(code6, 0, n), 6) : n \in 2..6}
         IN  IF ~(keys \subseteq DOMAIN titles) THEN Raised("KeyError")
             ELSE [Sector            |-> titles[ljust0(Slice(code6, 0, 2), 6)],
                   Subsector         |-> titles[ljust0(Slice(code6, 0, 3), 6)],
                   Industry_group    |-> titles[ljust0(Slice(code6, 0, 4), 6)],
                   Industry          |-> titles[ljust0(Slice(code6, 0, 5), 6)],
                   Canadian_industry |-> titles[code6],
                   Class_desc        |-> titles[code6]]

ChainKeys == {"Sector", "Subsector", "Industry_group", "Industry", "Canadian_industry", "Class_desc"}

\* lines 95-113; titles is TITLE_BY_CODE, x any Python value
split_chain(titles, x) ==
    IF x.ty # "str" \/ ~isdigit(x.v)
    THEN [k \in ChainKeys |-> <<>>]
    ELSE LET code6 == zfill(x.v, 6)
         IN  [Sector            |-> Get(titles, ljust0(Slice(code6, 0, 2), 6), <<>>),
              Subsector         |-> Get(titles, ljust0(Slice(code6, 0, 3), 6), <<>>),
              Industry_group    |-> Get(titles, ljust0(Slice(code6, 0, 4), 6), <<>>),
              Industry          |-> Get(titles, ljust0(Slice(code6, 0, 5), 6), <<>>),
              Canadian_industry |-> Get(titles, code6, <<>>),
              Class_desc        |-> Get(titles, code6, <<>>)]

NoCall == [fn |-> "none", arg |-> <<>>, ret |-> <<>>]

NewCols == {"NAICS_Code", "NAICS_Desc", "Sector", "Subsector", "Industry_group",
            "Industry", "Canadian_industry", "Class_desc"}

NoFrame == [columns |-> {}, rows |-> <<>>]
NothingWritten == [main |-> NoFrame, code_choices |-> {}, desc_choices |-> {}]

\* the row loop's state in a run that never reads IN_FILE
\* the Notes scripts have not run
MatchIdle ==
    /\ companies = <<>>
    /\ tracker = <<>>
    /\ ridx = 0
    /\ saved = <<>>

NotesIdle ==
    /\ blocks = <<>>
    /\ records = <<>>
    /\ header = <<>>
    /\ table = <<>>

RowsIdle ==
    /\ df = NoFrame
    /\ idx = 0
    /\ newcols = [c \in NewCols |-> <<>>]
    /\ scorer = EmptyDict
    /\ written = NothingWritten

\* module import: lines 79-92 run once
LoadStructure ==
    /\ pc = "start"
    /\ STRUCT' = load_structure(structFile)
    /\ TITLE_BY_CODE' = TitleByCode(STRUCT')
    /\ NAICS_CHOICES' = NaicsChoices(STRUCT')
    /\ TITLE_TO_CODE' = TitleToCode(STRUCT')
    /\ pc' = "loaded"
    /\ UNCHANGED <<matchVars, notesVars, structFile, rowVars, input, call>>

\* the arguments split_chain is tried on
ChainArgs ==
    {Str(TaxonomyPool[i].Code) : i \in 1..Len(TaxonomyPool)}
    \cup {Str(<<"1","1","1","1","1","1">>), Str(<<"1","1","1","1","1","0","7">>),
          Str(<<>>), Str(<<"1","1","a">>), Str(<<" ","1","1">>),
          PyNone, PyNaN, PyInt(<<"1","1","1","1","1","0">>)}

CallSplitChain ==
    /\ pc = "loaded" /\ call = NoCall
    /\ \E x \in ChainArgs :
        call' = [fn |-> "split_chain", arg |-> x, ret |-> split_chain(TITLE_BY_CODE, x)]
    /\ UNCHANGED <<matchVars, notesVars, pc, structFile, tables, rowVars, input>>

InitChain ==
    /\ pc = "start"
    /\ structFile \in TaxonomyFiles
    /\ STRUCT = <<>>
    /\ TITLE_BY_CODE = EmptyDict
    /\ NAICS_CHOICES = <<>>
    /\ TITLE_TO_CODE = EmptyDict
    /\ RowsIdle
    /\ NotesIdle
    /\ MatchIdle
    /\ input = <<>>
    /\ call = NoCall

NextChain == LoadStructure \/ CallSplitChain

SpecChain == InitChain /\ [][NextChain]_vars

-----------------------------------------------------------------------------
(* add_NAISC.py, fuzzy_naics: thefuzz's process.extractOne with
   scorer = fuzz.token_set_ratio *)

FUZZY_THRESHOLD == 80
DefaultCutoff == 70

AlNum == Letters \cup Digits

\* str.split(): the maximal runs of non-space characters
RECURSIVE SplitFrom(_, _, _)
SplitFrom(s, i, cur) ==
    IF i > Len(s) THEN (IF cur = <<>> THEN <<>> ELSE <<cur>>)
    ELSE IF s[i] \in Space
         THEN (IF cur = <<>> THEN <<>> ELSE <<cur>>) \o SplitFrom(s, i + 1, <<>>)
         ELSE SplitFrom(s, i + 1, Append(cur, s[i]))

split(s) == SplitFrom(s, 1, <<>>)

\* thefuzz utils.full_process: non-alphanumerics to spaces, lower-case, strip
full_process(s) == strip(lower([i \in 1..Len(s) |-> IF s[i] \in AlNum THEN s[i] ELSE " "]))

Tokens(s) == Range(split(full_process(s)))

\* the scores token_set_ratio may give two strings neither of whose token sets
\* holds the other
MaxChoices == 3
FreeScores == {60, 70, 80, 90}

\* fuzz.token_set_ratio(q, p): 0 when either side has no token, 100 when one token
\* set holds the other, and otherwise a ratio below 100 (free)
token_set_ratio(q, p, free) ==
    IF Tokens(q) = {} \/ Tokens(p) = {} THEN 0
    ELSE IF Tokens(q) \subseteq Tokens(p) \/ Tokens(p) \subseteq Tokens(q) THEN 100
    ELSE free

\* a mutant that keeps the last of several equal best scores
BestIndexLast(choices, sim) ==
    CHOOSE i \in 1..Len(choices) :
        /\ \A j \in 1..Len(choices) : sim[choices[j]] <= sim[choices[i]]
        /\ \A j \in (i + 1)..Len(choices) : sim[choices[j]] < sim[choices[i]]

\* the first index of the best score
BestIndex(choices, sim) ==
    CHOOSE i \in 1..Len(choices) :
        /\ \A j \in 1..Len(choices) : sim[choices[j]] <= sim[choices[i]]
        /\ \A j \in 1..(i - 1) : sim[choices[j]] < sim[choices[i]]

\* a mutant that rejects a score equal to the cutoff
ClearsCutoffStrict(score, cutoff) == score > cutoff

\* score_cutoff of extractOne: a score equal to the cutoff is kept
ClearsCutoff(score, cutoff) == score >= cutoff

\* process.extractOne(query, choices, scorer, score_cutoff); sim[p] is the scorer's
\* value for the query and phrase p; None when no choice clears the cutoff
extractOne(choices, sim, cutoff) ==
    IF choices = <<>> THEN PyNone
    ELSE LET i == BestIndex(choices, sim)
         IN  IF ClearsCutoff(sim[choices[i]], cutoff)
             THEN [ty |-> "tuple", v |-> <<choices[i], sim[choices[i]]>>]
             ELSE PyNone

NullTriad == <<PyNone, PyNone, 0>>

\* lines 191-218
fuzzy_naics(raw_text, choices, code_lookup, cutoff, sim) ==
    IF raw_text.ty # "str" \/ strip(raw_text.v) = <<>> THEN NullTriad
    ELSE LET result == extractOne(choices, sim, cutoff)
         IN  IF result = PyNone THEN NullTriad
             ELSE LET choice == result.v[1]
                      score  == result.v[2]
                      naics_code == IF choice \in DOMAIN code_lookup
                                    THEN Str(code_lookup[choice]) ELSE PyNone
                  IN  <<naics_code, Str(choice), score>>

\* the scorer's values for one query against the phrases of a list
SimTables(q, choices, frees) ==
    {[p \in Range(choices) |-> token_set_ratio(q, p, free[p])] :
        free \in [Range(choices) -> frees]}

FuzzyQueries ==
    {Str(<<"S","o","y">>), Str(<<"S","o","y"," ","O","i","l">>), Str(<<"C","o","r","n">>),
     Str(<<"-","-">>), Str(<<" "," ">>), Str(<<>>), PyNone, PyNaN}

CallFuzzy ==
    /\ pc = "loaded" /\ call = NoCall
    /\ \E raw_text \in FuzzyQueries, cutoff \in {DefaultCutoff, FUZZY_THRESHOLD},
          code_lookup \in {TITLE_TO_CODE, EmptyDict} :
        \E sim \in SimTables(raw_text.v, NAICS_CHOICES, FreeScores) :
            call' = [fn  |-> "fuzzy_naics",
                     arg |-> [raw_text |-> raw_text, choices |-> NAICS_CHOICES,
                              code_lookup |-> code_lookup, cutoff |-> cutoff, sim |-> sim],
                     ret |-> fuzzy_naics(raw_text, NAICS_CHOICES, code_lookup, cutoff, sim)]
    /\ UNCHANGED <<matchVars, notesVars, pc, structFile, tables, rowVars, input>>

InitFuzzy ==
    /\ pc = "start"
    /\ structFile \in {f \in TaxonomyFiles : Len(f) <= MaxChoices}
    /\ STRUCT = <<>>
    /\ TITLE_BY_CODE = EmptyDict
    /\ NAICS_CHOICES = <<>>
    /\ TITLE_TO_CODE = EmptyDict
    /\ RowsIdle
    /\ NotesIdle
    /\ MatchIdle
    /\ input = <<>>
    /\ call = NoCall

NextFuzzy == LoadStructure \/ CallFuzzy

SpecFuzzy == InitFuzzy /\ [][NextFuzzy]_vars

-----------------------------------------------------------------------------
(* add_NAISC.py, clean_text: the ten steps of the normaliser *)

\* \w of the re module, on ASCII text
WordChars == AlNum \cup {"_"}

\* the first index >= i whose character is outside cs, or Len(s) + 1
RECURSIVE SkipWhile(_, _, _)
SkipWhile(s, i, cs) == IF i <= Len(s) /\ s[i] \in cs THEN SkipWhile(s, i + 1, cs) ELSE i

\* the non-ASCII characters of the model, each one character of the string:
\* "<e-acute>" is U+00E9 and "<en-dash>" is U+2013
\* step 1: unicodedata.normalize("NFKD") then encode("ascii", errors="ignore"):
\* an accented letter keeps its base letter, any other non-ASCII character is dropped
RECURSIVE FoldAscii(_)
FoldAscii(s) ==
    IF s = <<>> THEN <<>>
    ELSE (CASE s[1] = "<e-acute>" -> <<"e">>
            [] s[1] = "<en-dash>" -> <<>>
            [] OTHER -> <<s[1]>>) \o FoldAscii(Tail(s))

\* step 2: .replace("\r", " ").replace("\n", " ")
KillLineBreaks(s) == [i \in 1..Len(s) |-> IF s[i] \in {"\r", "\n"} THEN " " ELSE s[i]]

\* does [#/]\s*\d match at i
CommentAt(s, i) ==
    /\ s[i] \in {"#", "/"}
    /\ LET j == SkipWhile(s, i + 1, Space) IN j <= Len(s) /\ s[j] \in Digits

\* step 3 left out: a mutant
StripCommentNever(s) == s

\* step 3: re.sub(r"[#/]\s*\d{1,6}.*", " ", txt): the first match runs to the end
StripComment(s) ==
    IF \E i \in 1..Len(s) : CommentAt(s, i)
    THEN LET i == CHOOSE k \in 1..Len(s) :
                      CommentAt(s, k) /\ \A m \in 1..(k - 1) : ~CommentAt(s, m)
         IN  SubSeq(s, 1, i - 1) \o <<" ">>
    ELSE s

\* step 4, first sub: ^[\s\-]*(\d{3,6})(?=\D|$)
StripLeadingCode(s) ==
    LET j == SkipWhile(s, 1, Space \cup {"-"})
        k == SkipWhile(s, j, Digits)
    IN  IF k - j >= 3 /\ k - j <= 6 THEN <<" ">> \o SubSeq(s, k, Len(s)) ELSE s

\* step 4, second sub: \b\d{3,6}\b, every match; a match is a whole run of word
\* characters made of 3 to 6 digits
RECURSIVE StripCodesFrom(_, _)
StripCodesFrom(s, i) ==
    IF i > Len(s) THEN <<>>
    ELSE IF s[i] \in WordChars
         THEN LET k == SkipWhile(s, i, WordChars)
                  run == SubSeq(s, i, k - 1)
              IN  (IF Range(run) \subseteq Digits /\ Len(run) >= 3 /\ Len(run) <= 6
                   THEN <<" ">> ELSE run) \o StripCodesFrom(s, k)
         ELSE <<s[i]>> \o StripCodesFrom(s, i + 1)

StripCodes(s) == StripCodesFrom(s, 1)

NoisyPunct == {",", ":", ";", "(", ")", "[", "]"}

\* step 5, first sub: [,:;()\[\]] to a space
KillPunct(s) == [i \in 1..Len(s) |-> IF s[i] \in NoisyPunct THEN " " ELSE s[i]]

\* re.sub(r"[cs]{2,}", repl, s): every run of two or more characters of cs
RECURSIVE CollapseRuns(_, _, _, _)
CollapseRuns(s, i, cs, repl) ==
    IF i > Len(s) THEN <<>>
    ELSE IF s[i] \in cs
         THEN LET k == SkipWhile(s, i, cs)
              IN  (IF k - i >= 2 THEN repl ELSE <<s[i]>>) \o CollapseRuns(s, k, cs, repl)
         ELSE <<s[i]>> \o CollapseRuns(s, i + 1, cs, repl)

\* lines 127-135, in dict order
SUBSTITUTIONS == <<
    <<<<"a","g","i","r","c","u","l","t","u","r","e">>, <<"a","g","r","i","c","u","l","t","u","r","e">>>>,
    <<<<"a","b","b","a","t","o","i","r","s">>, <<"a","b","a","t","t","o","i","r","s">>>>,
    <<<<"p","e","r"," ","w","c","b">>, <<>>>>,
    <<<<"n","e",","," ","n","e","c">>, <<>>>> >>

\* does \b pat \b match at i, ignoring case (pat starts and ends with a word character)
LiteralAt(s, i, pat) ==
    /\ i + Len(pat) - 1 <= Len(s)
    /\ lower(SubSeq(s, i, i + Len(pat) - 1)) = pat
    /\ (i = 1 \/ s[i - 1] \notin WordChars)
    /\ (i + Len(pat) > Len(s) \/ s[i + Len(pat)] \notin WordChars)

\* pat.sub(repl, txt): matches left to right, not overlapping
RECURSIVE SubLiteral(_, _, _, _)
SubLiteral(s, i, pat, repl) ==
    IF i > Len(s) THEN <<>>
    ELSE IF LiteralAt(s, i, pat)
         THEN repl \o SubLiteral(s, i + Len(pat), pat, repl)
         ELSE <<s[i]>> \o SubLiteral(s, i + 1, pat, repl)

\* step 6: for pat, repl in SUB_PATTERNS: txt = pat.sub(repl, txt)
RECURSIVE ApplySubs(_, _)
ApplySubs(s, n) ==
    IF n > Len(SUBSTITUTIONS) THEN s
    ELSE ApplySubs(SubLiteral(s, 1, SUBSTITUTIONS[n][1], SUBSTITUTIONS[n][2]), n + 1)

RECURSIVE Join(_, _)
Join(words, sep) ==
    IF words = <<>> THEN <<>>
    ELSE IF Len(words) = 1 THEN words[1]
    ELSE words[1] \o sep \o Join(Tail(words), sep)

\* step 7: re.sub(r"\s+", " ", txt).strip().lower()
CollapseWs(s) == lower(Join(split(s), <<" ">>))

\* the corrections of the speller on the words of this model: a fixed word map
SpellWord(w) == IF w = <<"t","e","h">> THEN <<"t","h","e">> ELSE w

\* step 8: spell(txt) rewrites every [A-Za-z]+ run by the word map
RECURSIVE spell(_, _)
spell(s, i) ==
    IF i > Len(s) THEN <<>>
    ELSE IF s[i] \in Letters
         THEN LET k == SkipWhile(s, i, Letters)
              IN  SpellWord(SubSeq(s, i, k - 1)) \o spell(s, k)
         ELSE <<s[i]>> \o spell(s, i + 1)

\* step 9: str.title(): a letter is upper-cased after a non-letter, lower-cased after a letter
title(s) ==
    [i \in 1..Len(s) |->
        IF s[i] \in Letters
        THEN (IF i = 1 \/ s[i - 1] \notin Letters THEN UpperChar(s[i]) ELSE LowerChar(s[i]))
        ELSE s[i]]

\* step 10: return txt if txt.strip(".- ") else ""
FinalSanity(s) == IF stripSet(s, {".", "-", " "}) # <<>> THEN s ELSE <<>>

\* str(x)
str(x) == x.v

\* the null test of line 150 left out: a mutant
isna_never(x) == FALSE

\* pd.isna(x)
isna(x) == x.ty \in {"NoneType", "float"}

\* how many of the ten steps of clean_text run: none when line 150 returns
clean_text_steps(raw) == IF isna(raw) \/ strip(str(raw)) = <<>> THEN 0 ELSE 10

\* lines 141-189; returns the string
clean_text(raw) ==
    IF isna(raw) \/ strip(str(raw)) = <<>> THEN <<>>
    ELSE LET t1 == FoldAscii(str(raw))
             t2 == KillLineBreaks(t1)
             t3 == StripComment(t2)
             t4 == StripCodes(StripLeadingCode(t3))
             t5 == CollapseRuns(CollapseRuns(KillPunct(t4), 1, {".", "/"}, <<"/">>),
                                1, {"-"}, <<"-">>)
             t6 == ApplySubs(t5, 1)
             t7 == CollapseWs(t6)
             t8 == spell(t7, 1)
             t9 == title(t8)
         IN  FinalSanity(t9)

\* the pieces the inputs of clean_text are put together from
MaxParts == 3

CleanPieces == {<<"a">>, <<"5">>, <<"6","4","2">>, <<" ">>, <<"/">>, <<"#">>, <<":">>,
                <<"-">>, <<".">>, <<"p","e","r"," ","w","c","b">>, <<"<e-acute>">>}

RECURSIVE Concat(_)
Concat(parts) == IF parts = <<>> THEN <<>> ELSE parts[1] \o Concat(Tail(parts))

\* inputs quoted by the specification and the code's comments
CleanSamples ==
    {<<"S","O","Y","B","E","A","N"," ","F","A","R","M","I","N","G"," ","/"," ","6","4","2"," ","p","e","r"," ","W","C","B">>,
     <<"#","1","0","8"," ","p","e","r"," ","W","C","B"," ","J","u","n","e"," ","2","0","/","1","1">>,
     <<"t","e","h"," ","&"," ","\n","<en-dash>","a">>,
     <<"p","e","r"," ","p","e","r"," ","w","c","b"," ","w","c","b">>,
     <<" ","\t","\n"," ">>}

CleanInputs ==
    {Str(Concat(parts)) : parts \in UNION {[1..n -> CleanPieces] : n \in 0..MaxParts}}
    \cup {Str(x) : x \in CleanSamples} \cup {PyNone, PyNaN}

CallCleanText ==
    /\ pc = "start" /\ call = NoCall
    /\ call' = [fn |-> "clean_text", arg |-> input, ret |-> clean_text(input),
                steps |-> clean_text_steps(input)]
    /\ UNCHANGED <<matchVars, notesVars, pc, structFile, tables, rowVars, input>>

\* the normaliser applied to its own output
CallCleanTextAgain ==
    /\ pc = "start" /\ call.fn = "clean_text"
    /\ call' = [fn |-> "clean_text_again", arg |-> call.ret,
                ret |-> clean_text(Str(call.ret)), steps |-> clean_text_steps(Str(call.ret))]
    /\ UNCHANGED <<matchVars, notesVars, pc, structFile, tables, rowVars, input>>

InitClean ==
    /\ pc = "start"
    /\ structFile = <<>>
    /\ STRUCT = <<>>
    /\ TITLE_BY_CODE = EmptyDict
    /\ NAICS_CHOICES = <<>>
    /\ TITLE_TO_CODE = EmptyDict
    /\ RowsIdle
    /\ NotesIdle
    /\ MatchIdle
    /\ input \in CleanInputs
    /\ call = NoCall

NextClean == CallCleanText \/ CallCleanTextAgain

SpecClean == InitClean /\ [][NextClean]_vars

-----------------------------------------------------------------------------
(* add_NAISC.py, section 5 and 6: the row loop and the files written *)

MaxRows == 1

SourceCols == <<"Imported_SiteDescription", "SubSiteSICDesc", "IndustryType">>

\* the cells pd.read_csv(dtype=str) gives per column: an empty cell is NaN, any
\* other cell the text as written
CellPool == [c \in {"Name", "NAICS_Code", "Imported_SiteDescription", "SubSiteSICDesc", "IndustryType"} |->
    CASE c = "Name" -> {Str(<<"a">>)}
      [] c = "NAICS_Code" ->
            {PyNaN, Str(<<" "," ">>), Str(<<" ","1","1","1","1","1","0">>),
             Str(<<"9","9","9","9","9","9">>)}
      [] c = "Imported_SiteDescription" ->
            {PyNaN, Str(<<" "," ">>),
             Str(<<"S","o","y"," ","/"," ","6","4","2"," ","p","e","r"," ","W","C","B">>)}
      [] c = "SubSiteSICDesc" -> {PyNaN, Str(<<"O","i","l">>)}
      [] c = "IndustryType" -> {PyNaN, Str(<<"C","o","r","n">>)}]

AllCols == DOMAIN CellPool

ColumnSets == {AllCols, AllCols \ {"NAICS_Code"},
               AllCols \ {"NAICS_Code", "Imported_SiteDescription"}}

RowsOver(columns) == {r \in [columns -> UNION {CellPool[c] : c \in columns}] :
                         \A c \in columns : r[c] \in CellPool[c]}

FramesOver(cs) == {[columns |-> cs, rows |-> rs] :
                      rs \in UNION {[1..n -> RowsOver(cs)] : n \in 0..MaxRows}}

\* the input files considered: up to MaxRows rows over each column set
InFiles == UNION {FramesOver(cs) : cs \in ColumnSets}

\* row.get(c, ""): the cell, or "" when the frame has no such column
RowGet(frame, row, c) == IF c \in frame.columns THEN row[c] ELSE Str(<<>>)

\* lines 262-268
RECURSIVE first_non_blank(_, _, _)
first_non_blank(frame, row, cols) ==
    IF cols = <<>> THEN <<>>
    ELSE LET val == strip(str(RowGet(frame, row, cols[1])))
         IN  IF val # <<>> THEN val ELSE first_non_blank(frame, row, Tail(cols))

\* first_non_blank skipping a null cell before str() is taken
RECURSIVE first_non_blank_notna(_, _, _)
first_non_blank_notna(frame, row, cols) ==
    IF cols = <<>> THEN <<>>
    ELSE LET cell == RowGet(frame, row, cols[1])
             val == IF isna(cell) THEN <<>> ELSE strip(str(cell))
         IN  IF val # <<>> THEN val ELSE first_non_blank_notna(frame, row, Tail(cols))

\* the free scores of the scorer in the row loop, either side of FUZZY_THRESHOLD
RowFreeScores == {FUZZY_THRESHOLD - 10, FUZZY_THRESHOLD + 10}

\* line 272
Existing(frame, row) == strip(str(RowGet(frame, row, "NAICS_Code")))

\* lines 289-300: the codes and titles of a row from fuzzy_naics' triad
FromFuzzy(triad) ==
    IF triad[1].ty = "str" /\ triad[1].v # <<>>
    THEN [codes |-> <<triad[1].v>>, titles |-> <<triad[2].v>>]
    ELSE [codes |-> <<>>, titles |-> <<>>]

\* the source text of a row (lines 278-282)
RawSrc(frame, row) == first_non_blank(frame, row, SourceCols)

\* the scorer's table for a query: the one met before, or any the scorer may give
ScorerTables(q) ==
    IF q \in DOMAIN scorer THEN {scorer[q]} ELSE SimTables(q, NAICS_CHOICES, RowFreeScores)

\* what the fresh fuzzy match of a row's source text is under table sim
FreshMatch(frame, row, sim) ==
    fuzzy_naics(Str(clean_text(Str(RawSrc(frame, row)))), NAICS_CHOICES, TITLE_TO_CODE,
                FUZZY_THRESHOLD, sim)

\* the score of the existing code's title against the cleaned source text
ExistingScore(frame, row, free) ==
    token_set_ratio(clean_text(Str(RawSrc(frame, row))),
                    Get(TITLE_BY_CODE, Existing(frame, row), <<>>), free)

\* the row step as the specification words it: the existing title and the fresh
\* match are both scored and the higher one is kept, the existing one on a tie
RowResultRescored(frame, row, sim) ==
    LET existing == Existing(frame, row)
        fresh == FreshMatch(frame, row, sim)
    IN  IF existing # <<>>
        THEN IF fresh[1].ty = "str" /\ fresh[3] > ExistingScore(frame, row, FUZZY_THRESHOLD - 10)
             THEN [codes |-> <<fresh[1].v>>, titles |-> <<fresh[2].v>>]
             ELSE [codes |-> <<existing>>, titles |-> <<Get(TITLE_BY_CODE, existing, <<>>)>>]
        ELSE IF RawSrc(frame, row) = <<>>
             THEN [codes |-> <<>>, titles |-> <<>>]
             ELSE FromFuzzy(fresh)

\* lines 270-300: codes and titles of one row; fuzzy_naics is called, with the
\* scorer's table sim, only for a row without existing code and with source text
RowResult(frame, row, sim) ==
    LET existing == Existing(frame, row)
    IN  IF existing # <<>>
        THEN [codes |-> <<existing>>, titles |-> <<Get(TITLE_BY_CODE, existing, <<>>)>>]
        ELSE IF RawSrc(frame, row) = <<>>
             THEN [codes |-> <<>>, titles |-> <<>>]
             ELSE FromFuzzy(FreshMatch(frame, row, sim))

\* does the row reach the scorer: fuzzy_naics is called on a non-blank string
CallsScorer(frame, row) ==
    /\ Existing(frame, row) = <<>>
    /\ RawSrc(frame, row) # <<>>
    /\ strip(clean_text(Str(RawSrc(frame, row)))) # <<>>

\* lines 306-314: the chain slot of every code of the row
ChainCol(codes, k) == [i \in 1..Len(codes) |-> split_chain(TITLE_BY_CODE, Str(codes[i]))[k]]

\* line 255
ReadCsv ==
    /\ pc = "loaded"
    /\ df' = input
    /\ pc' = "rows"
    /\ UNCHANGED <<matchVars, notesVars, structFile, tables, idx, newcols, scorer, written, input, call>>

\* lines 270-321: one pass of the row loop
ProcessRow ==
    /\ pc = "rows" /\ idx < Len(df.rows)
    /\ LET row == df.rows[idx + 1]
           q == clean_text(Str(RawSrc(df, row)))
       IN  \E sim \in ScorerTables(q) :
            LET res == RowResult(df, row, sim)
            IN  /\ newcols' = [c \in NewCols |->
                        Append(newcols[c],
                            CASE c = "NAICS_Code" -> Join(res.codes, <<";">>)
                              [] c = "NAICS_Desc" -> Join(res.titles, <<";">>)
                              [] OTHER -> Join(ChainCol(res.codes, c), <<";">>))]
                /\ scorer' = IF CallsScorer(df, row) /\ q \notin DOMAIN scorer
                             THEN [k \in DOMAIN scorer \cup {q} |->
                                      IF k = q THEN sim ELSE scorer[k]]
                             ELSE scorer
    /\ idx' = idx + 1
    /\ UNCHANGED <<matchVars, notesVars, pc, structFile, tables, df, written, input, call>>

\* str.split(sep) for a one-character separator
RECURSIVE SplitOn(_, _, _, _)
SplitOn(s, sep, i, cur) ==
    IF i > Len(s) THEN <<cur>>
    ELSE IF s[i] = sep THEN <<cur>> \o SplitOn(s, sep, i + 1, <<>>)
    ELSE SplitOn(s, sep, i + 1, Append(cur, s[i]))

\* lines 341-342: the distinct non-empty entries of a result column (sorted() then
\* orders them; the set decides the list)
Choices(col) ==
    {c \in UNION {Range(SplitOn(col[i], ";", 1, <<>>)) : i \in 1..Len(col)} : c # <<>>}

\* lines 327-348: the new columns are assigned to the frame and the files written
WriteResults ==
    /\ pc = "rows" /\ idx = Len(df.rows)
    /\ written' =
        [main |-> [columns |-> df.columns \cup NewCols,
                   rows |-> [i \in 1..Len(df.rows) |->
                                [c \in df.columns \cup NewCols |->
                                    IF c \in NewCols THEN Str(newcols[c][i])
                                    ELSE df.rows[i][c]]]],
         code_choices |-> Choices(newcols["NAICS_Code"]),
         desc_choices |-> Choices(newcols["NAICS_Desc"])]
    /\ pc' = "done"
    /\ UNCHANGED <<matchVars, notesVars, structFile, tables, df, idx, newcols, scorer, input, call>>

\* the taxonomy files of the row-loop runs
RowsFiles == {SelectRows(TaxonomyPool, {5, 6}, 1), SelectRows(TaxonomyPool, {4, 5}, 1)}

InitRows ==
    /\ pc = "start"
    /\ structFile \in RowsFiles
    /\ STRUCT = <<>>
    /\ TITLE_BY_CODE = EmptyDict
    /\ NAICS_CHOICES = <<>>
    /\ TITLE_TO_CODE = EmptyDict
    /\ RowsIdle
    /\ NotesIdle
    /\ MatchIdle
    /\ input \in InFiles
    /\ call = NoCall

NextRows == LoadStructure \/ ReadCsv \/ ProcessRow \/ WriteResults

SpecRows == InitRows /\ [][NextRows]_vars

-----------------------------------------------------------------------------
(* phone_cleaner.py *)

\* line 31
DEFAULT_AREA == <<"2","0","4">>

\* lines 33-35
TOLL_FREE_CODES == {<<"8","0","0">>, <<"8","8","8">>, <<"8","7","7">>, <<"8","6","6">>,
                    <<"8","5","5">>, <<"8","4","4">>, <<"8","3","3">>, <<"8","2","2">>}

\* lines 38-59, in dict order
KEYWORDS == <<
    [label |-> "cell", kws |-> <<<<"c","e","l","l">>,
        <<"c","e","l">>,
        <<"c","e","l",".">>,
        <<"m","o","b","i","l","e">>,
        <<"m","o","b">>,
        <<"m">>,
        <<"c">>,
        <<"h","a","n","d">>,
        <<"s","m","a","r","t","p","h","o","n","e">>>>],
    [label |-> "home", kws |-> <<<<"h","o","m","e">>,
        <<"r","e","s">>,
        <<"r","e","s",".">>,
        <<"r","e","s",":">>,
        <<"h","o","u","s","e">>,
        <<"h">>,
        <<"r">>,
        <<"r","e","s","i","d","e","n","c","e">>>>],
    [label |-> "work", kws |-> <<<<"w","o","r","k">>,
        <<"w","k">>,
        <<"b","u","s">>,
        <<"b","u","s","i","n","e","s","s">>,
        <<"w">>,
        <<"t">>>>],
    [label |-> "office", kws |-> <<<<"o","f","f","i","c","e">>,
        <<"o","f","f">>,
        <<"o">>,
        <<"m","a","i","n">>,
        <<"s","i","t","e">>,
        <<"s","t","o","r","e">>,
        <<"s","h","o","p">>,
        <<"p","r","o"," ","s","h","o","p">>,
        <<"c","h","u","r","c","h">>,
        <<"r","e","s","t","a","u","r","a","n","t">>,
        <<"d","i","r">>,
        <<"d","i","r","e","c","t">>,
        <<"l","i","n","e">>,
        <<"h","q">>,
        <<"a","d","m","i","n">>,
        <<"l","a","b">>,
        <<"s","p","a">>,
        <<"s","a","l","o","n">>>>],
    [label |-> "fax", kws |-> <<<<"f","a","x">>,
        <<"f">>,
        <<"f","x">>>>],
    [label |-> "tollfree", kws |-> <<<<"t","o","l","l"," ","f","r","e","e">>,
        <<"t","o","l","l","-","f","r","e","e">>,
        <<"t","o","l","l","f","r","e","e">>>>] >>


Labels == {"cell", "home", "work", "office", "fax", "tollfree", "other"}

\* [\s\-\.] of PHONE_RE
PhoneSep == Space \cup {"-", "."}

DigitsAt(s, i, n) == i + n - 1 <= Len(s) /\ \A k \in i..(i + n - 1) : s[k] \in Digits

\* [\s\-\.]?\s* from i, before a digit or "(": the index after the gap, 0 when the
\* characters up to the next digit or "(" are not one separator and white space
GapEnd(s, i) ==
    LET j == SkipWhile(s, i, PhoneSep)
    IN  IF j = i THEN i
        ELSE IF \A k \in (i + 1)..(j - 1) : s[k] \in Space THEN j ELSE 0

\* \d{3}[\s\-\.]?\s*\d{4} at i: the index after the match, or 0
LocalEnd(s, i) ==
    IF i = 0 \/ ~DigitsAt(s, i, 3) THEN 0
    ELSE LET j == GapEnd(s, i + 3)
         IN  IF j # 0 /\ DigitsAt(s, j, 4) THEN j + 4 ELSE 0

\* \(?\d{3}\)?[\s\-\.]?\s* at i, then the local number
AreaLocalEnd(s, i) ==
    IF i = 0 \/ i > Len(s) THEN 0
    ELSE LET p == IF s[i] = "(" THEN i + 1 ELSE i
         IN  IF ~DigitsAt(s, p, 3) THEN 0
             ELSE LET q == IF p + 3 <= Len(s) /\ s[p + 3] = ")" THEN p + 4 ELSE p + 3
                  IN  LocalEnd(s, GapEnd(s, q))

\* the optional area code is tried first, then the local number alone
RestEnd(s, i) == IF AreaLocalEnd(s, i) # 0 THEN AreaLocalEnd(s, i) ELSE LocalEnd(s, i)

\* (?:\+?1[\s\-\.]?\s*)? at i, then the rest
CountryRestEnd(s, i) ==
    LET p == IF s[i] = "+" THEN i + 1 ELSE i
    IN  IF p <= Len(s) /\ s[p] = "1" THEN RestEnd(s, GapEnd(s, p + 1)) ELSE 0

\* PHONE_RE.match at i (lines 62-69): the index after the match, or 0
PhoneReEnd(s, i) == IF CountryRestEnd(s, i) # 0 THEN CountryRestEnd(s, i) ELSE RestEnd(s, i)

\* PHONE_RE.finditer(s): the matches, left to right, as Python spans <<start, end>>
RECURSIVE FindIter(_, _)
FindIter(s, i) ==
    IF i > Len(s) THEN <<>>
    ELSE IF PhoneReEnd(s, i) # 0
         THEN <<<<i - 1, PhoneReEnd(s, i) - 1>>>> \o FindIter(s, PhoneReEnd(s, i))
         ELSE FindIter(s, i + 1)

\* re.sub(r"\D", "", raw)
RECURSIVE OnlyDigits(_)
OnlyDigits(s) ==
    IF s = <<>> THEN <<>>
    ELSE (IF s[1] \in Digits THEN <<s[1]>> ELSE <<>>) \o OnlyDigits(Tail(s))

\* lines 74-84
_clean_local(raw, default_area) ==
    LET d0 == OnlyDigits(raw)
        d1 == IF Len(d0) = 7 /\ default_area # <<>> THEN default_area \o d0 ELSE d0
        d2 == IF Len(d1) = 10 THEN <<"1">> \o d1 ELSE d1
    IN  <<"+">> \o d2

\* the country calling codes phonenumbers knows of one and two digits, and those of
\* three digits that start a number of the texts below
CountryCodes ==
    {<<"1">>, <<"7">>,
     <<"2","0">>, <<"2","7">>, <<"3","0">>, <<"3","1">>, <<"3","2">>, <<"3","3">>,
     <<"3","4">>, <<"3","6">>, <<"3","9">>, <<"4","0">>, <<"4","1">>, <<"4","3">>,
     <<"4","4">>, <<"4","5">>, <<"4","6">>, <<"4","7">>, <<"4","8">>, <<"4","9">>,
     <<"5","1">>, <<"5","2">>, <<"5","3">>, <<"5","4">>, <<"5","5">>, <<"5","6">>,
     <<"5","7">>, <<"5","8">>, <<"6","0">>, <<"6","1">>, <<"6","2">>, <<"6","3">>,
     <<"6","4">>, <<"6","5">>, <<"6","6">>, <<"8","1">>, <<"8","2">>, <<"8","4">>,
     <<"8","6">>, <<"9","0">>, <<"9","1">>, <<"9","2">>, <<"9","3">>, <<"9","4">>,
     <<"9","5">>, <<"9","8">>,
     <<"8","0","0">>, <<"8","0","8">>, <<"8","8","8">>}

\* the length of the country calling code that "+<digits>" starts with: the shortest
\* prefix of one to three digits that is one, 0 when there is none
CountryCodeLen(cleaned) ==
    LET d == Tail(cleaned)
        fits == {n \in 1..3 : n < Len(d) /\ SubSeq(d, 1, n) \in CountryCodes}
    IN  IF fits = {} THEN 0 ELSE CHOOSE n \in fits : \A m \in fits : n <= m

\* phonenumbers.parse("+<digits>", "US") raises NumberParseException when the digits
\* start with no country calling code (none starts with 0)
ParseRaises(cleaned) == CountryCodeLen(cleaned) = 0

\* phonenumbers.format_number(pn, NATIONAL) of +<digits>: a number of country code 1
\* is "(AAA) EEE-NNNN" with ten national digits and "EEE-NNNN" with seven (leading
\* digit 2-9); anything else is its national digits as they are
FormatNational(cleaned) ==
    LET d == Tail(cleaned)
        cc == SubSeq(d, 1, CountryCodeLen(cleaned))
        nat == SubSeq(d, CountryCodeLen(cleaned) + 1, Len(d))
    IN  IF cc = <<"1">> /\ Len(nat) = 10 /\ nat[1] \notin {"0", "1"}
        THEN <<"(">> \o SubSeq(nat, 1, 3) \o <<")", " ">> \o SubSeq(nat, 4, 6)
                \o <<"-">> \o SubSeq(nat, 7, 10)
        ELSE IF cc = <<"1">> /\ Len(nat) = 7 /\ nat[1] \notin {"0", "1"}
        THEN SubSeq(nat, 1, 3) \o <<"-">> \o SubSeq(nat, 4, 7)
        ELSE nat

\* re.match(r"\D*1?\D*(\d{3})", span): group 1, or <<>> when there is no match
AreaGroup(span) ==
    LET p == SkipWhile(span, 1, {c \in Range(span) : c \notin Digits})
    IN  IF p > Len(span) THEN <<>>
        ELSE LET q == SkipWhile(span, p + 1, {c \in Range(span) : c \notin Digits})
             IN  IF span[p] = "1" /\ DigitsAt(span, q, 3) THEN SubSeq(span, q, q + 2)
                 ELSE IF DigitsAt(span, p, 3) THEN SubSeq(span, p, p + 2)
                 ELSE <<>>

\* \b between w[k] and w[k+1] (k = 0: the start, k = Len(w): the end)
IsWordAt(w, k) == k >= 1 /\ k <= Len(w) /\ w[k] \in WordChars
Boundary(w, k) == IsWordAt(w, k) # IsWordAt(w, k + 1)

\* re.search(rf"\b{re.escape(kw)}\b", window)
KeywordIn(window, kw) ==
    \E i \in 1..(Len(window) - Len(kw) + 1) :
        /\ window[i] = kw[1]
        /\ SubSeq(window, i, i + Len(kw) - 1) = kw
        /\ Boundary(window, i - 1)
        /\ Boundary(window, i + Len(kw) - 1)

LabelHas(window, n) == \E k \in 1..Len(KEYWORDS[n].kws) : KeywordIn(window, KEYWORDS[n].kws[k])

\* the toll-free test of _label_for taken away: a mutant
IsTollFreeSpanNever(span) == FALSE

\* lines 94-97
IsTollFreeSpan(span) == AreaGroup(span) \in TOLL_FREE_CODES

\* the keyword search taking the last label that has a keyword in the window: a mutant
_label_for_last(text, start, end) ==
    LET window == lower(Slice(text, Max(0, start - 40), end + 15))
        single == lower(strip(Slice(text, Max(0, start - 2), start)))
    IN  IF IsTollFreeSpan(Slice(text, start, end)) THEN "tollfree"
        ELSE IF \E n \in 1..Len(KEYWORDS) : LabelHas(window, n)
        THEN KEYWORDS[CHOOSE n \in 1..Len(KEYWORDS) :
                        LabelHas(window, n)
                            /\ \A m \in (n + 1)..Len(KEYWORDS) : ~LabelHas(window, m)].label
        ELSE IF single \in {<<"c">>, <<"m">>} THEN "cell"
        ELSE IF single \in {<<"t">>, <<"o">>, <<"w">>} THEN "work"
        ELSE IF single \in {<<"h">>, <<"r">>} THEN "home"
        ELSE "other"

\* lines 87-114; start and end are Python indices
_label_for(text, start, end) ==
    LET window == lower(Slice(text, Max(0, start - 40), end + 15))
        single == lower(strip(Slice(text, Max(0, start - 2), start)))
    IN  IF IsTollFreeSpan(Slice(text, start, end)) THEN "tollfree"
        ELSE IF \E n \in 1..Len(KEYWORDS) : LabelHas(window, n)
        THEN KEYWORDS[CHOOSE n \in 1..Len(KEYWORDS) :
                        LabelHas(window, n) /\ \A m \in 1..(n - 1) : ~LabelHas(window, m)].label
        ELSE IF single \in {<<"c">>, <<"m">>} THEN "cell"
        ELSE IF single \in {<<"t">>, <<"o">>, <<"w">>} THEN "work"
        ELSE IF single \in {<<"h">>, <<"r">>} THEN "home"
        ELSE "other"

\* the spans PhoneNumberMatcher(s, "CA") may report: well-formed numbers with an
\* area code, standing clear of other digits; which of them the library holds
\* valid is left open
MatcherCandidates(s) ==
    {sp \in Range(FindIter(s, 1)) :
        /\ Len(OnlyDigits(Slice(s, sp[1], sp[2]))) \in {10, 11}
        /\ (sp[1] = 0 \/ s[sp[1]] \notin Digits)
        /\ (sp[2] = Len(s) \/ s[sp[2] + 1] \notin Digits)}

\* pass 1 as if it kept a match as it was written: a mutant
MatcherFormattedAsWritten(s, sp) == Slice(s, sp[1], sp[2])

\* the number of a match of pass 1, in national format
MatcherFormatted(s, sp) ==
    LET d == OnlyDigits(Slice(s, sp[1], sp[2]))
    IN  FormatNational(<<"+">> \o (IF Len(d) = 10 THEN <<"1">> \o d ELSE d))

\* pass 2 as if a candidate that does not parse were skipped: a mutant
Pass2FormattedOrNothing(s, sp, default_area) ==
    LET cleaned == _clean_local(Slice(s, sp[1], sp[2]), default_area)
    IN  IF ParseRaises(cleaned) THEN {} ELSE {FormatNational(cleaned)}

\* lines 138-143: what a match of pass 2 adds to its bucket
Pass2Formatted(s, sp, default_area) ==
    LET cleaned == _clean_local(Slice(s, sp[1], sp[2]), default_area)
    IN  IF ParseRaises(cleaned) THEN {Slice(s, sp[1], sp[2])} ELSE {FormatNational(cleaned)}

\* lines 122-148; found is what pass 1 reported; the result maps each label with
\* numbers to their set (the code sorts each set into a list)
extract_numbers(x, default_area, found) ==
    IF x.ty # "str" THEN [k \in Labels |-> {}]
    ELSE LET s == x.v
             pass1 == {<<_label_for(s, m[1], m[2]), MatcherFormatted(s, m)>> : m \in found}
             pass2 == UNION {{<<_label_for(s, m[1], m[2]), f>> : f \in Pass2Formatted(s, m, default_area)} :
                                m \in Range(FindIter(s, 1))}
             added == pass1 \cup pass2
         IN  [k \in {e[1] : e \in added} |-> {e[2] : e \in {a \in added : a[1] = k}}]

\* the pieces the phone texts are put together from
MaxSegments == 3

PhoneSegments == {
    <<"C","e","l","l",":"," ">>,
    <<"f","a","x"," ">>,
    <<" ","h","o","m","e">>,
    <<"c">>,
    <<"1","-">>,
    <<"(","8","0","0",")"," ","5","5","5","-","1","2","3","4">>,
    <<"2","0","4","-","5","5","5","-","0","1","9","9">>,
    <<"5","5","5","-","0","1","9","9">>,
    <<"8","0","0","-","1","2","3","4">>,
    <<"0","5","5","-","0","1","9","9">>}


PhoneTexts == {Str(Concat(parts)) : parts \in UNION {[1..n -> PhoneSegments] : n \in 0..MaxSegments}}
                \cup {PyNone}

\* the default area codes: the configured one, and none
DefaultAreas == {DEFAULT_AREA, <<>>}

CallExtractNumbers ==
    /\ pc = "start" /\ call = NoCall
    /\ \E found \in SUBSET (IF input.s.ty = "str" THEN MatcherCandidates(input.s.v) ELSE {}) :
        call' = [fn  |-> "extract_numbers",
                 arg |-> [s |-> input.s, default_area |-> input.default_area, found |-> found],
                 ret |-> extract_numbers(input.s, input.default_area, found)]
    /\ UNCHANGED <<matchVars, notesVars, pc, structFile, tables, rowVars, input>>

InitPhone ==
    /\ pc = "start"
    /\ structFile = <<>>
    /\ STRUCT = <<>>
    /\ TITLE_BY_CODE = EmptyDict
    /\ NAICS_CHOICES = <<>>
    /\ TITLE_TO_CODE = EmptyDict
    /\ RowsIdle
    /\ NotesIdle
    /\ MatchIdle
    /\ input \in {[s |-> t, default_area |-> a] : t \in PhoneTexts, a \in DefaultAreas}
    /\ call = NoCall

NextPhone == CallExtractNumbers

SpecPhone == InitPhone /\ [][NextPhone]_vars

-----------------------------------------------------------------------------
(* clean_text and fuzzy_naics in a row, as the row loop calls them (lines 287-294) *)

\* rows of the published structure file around soybean farming, in file order
StructureRows == <<
    [Code |-> <<"1","1","1">>,
     Class_title |-> <<"C","r","o","p"," ","p","r","o","d","u","c","t","i","o","n">>],
    [Code |-> <<"1","1","1","1">>,
     Class_title |-> <<"O","i","l","s","e","e","d"," ","a","n","d"," ","g","r","a","i","n"," ","f","a","r","m","i","n","g">>],
    [Code |-> <<"1","1","1","1","1">>,
     Class_title |-> <<"S","o","y","b","e","a","n"," ","f","a","r","m","i","n","g">>],
    [Code |-> <<"1","1","1","1","1","0">>,
     Class_title |-> <<"S","o","y","b","e","a","n"," ","f","a","r","m","i","n","g">>],
    [Code |-> <<"1","1","1","1","2","0">>,
     Class_title |-> <<"O","i","l","s","e","e","d"," ","(","e","x","c","e","p","t"," ","s","o","y","b","e","a","n",")"," ","f","a","r","m","i","n","g">>] >>

StructureFiles == {SelectRows(StructureRows, keep, 1) : keep \in SUBSET (1..Len(StructureRows))}

\* source texts of a row
SourceTexts ==
    {<<"S","O","Y","B","E","A","N"," ","F","A","R","M","I","N","G"," ","/"," ","6","4","2"," ","p","e","r"," ","W","C","B">>,
     <<"S","o","y","b","e","a","n"," ","f","a","r","m","i","n","g">>,
     <<"s","o","y","b","e","a","n">>,
     <<"O","i","l","s","e","e","d"," ","f","a","r","m","i","n","g"," ","#","1","2">>,
     <<"#","1","0","8"," ","p","e","r"," ","W","C","B"," ","J","u","n","e"," ","2","0","/","1","1">>,
     <<"C","r","o","p">>}

\* lines 287-294: desc_cln = clean_text(raw_src), then fuzzy_naics(desc_cln, ...)
CallCleanThenFuzzy ==
    /\ pc = "loaded" /\ call = NoCall
    /\ LET desc_cln == clean_text(Str(input))
       IN  \E sim \in SimTables(desc_cln, NAICS_CHOICES, RowFreeScores) :
            call' = [fn  |-> "clean_text+fuzzy_naics",
                     arg |-> input,
                     desc_cln |-> desc_cln,
                     ret |-> fuzzy_naics(Str(desc_cln), NAICS_CHOICES, TITLE_TO_CODE,
                                         FUZZY_THRESHOLD, sim)]
    /\ UNCHANGED <<matchVars, notesVars, pc, structFile, tables, rowVars, input>>

InitEndToEnd ==
    /\ pc = "start"
    /\ structFile \in StructureFiles
    /\ STRUCT = <<>>
    /\ TITLE_BY_CODE = EmptyDict
    /\ NAICS_CHOICES = <<>>
    /\ TITLE_TO_CODE = EmptyDict
    /\ RowsIdle
    /\ NotesIdle
    /\ MatchIdle
    /\ input \in SourceTexts
    /\ call = NoCall

NextEndToEnd == LoadStructure \/ CallCleanThenFuzzy

SpecEndToEnd == InitEndToEnd /\ [][NextEndToEnd]_vars

-----------------------------------------------------------------------------
(* clean_notes_kv.py and lotus_sr_to_csv.py: Lotus Notes structured text to a table *)

NotesScripts == {"clean_notes_kv", "lotus_sr_to_csv"}

\* the default record separator: ASCII 31 (clean_notes_kv.py line 19) or form feed
\* (lotus_sr_to_csv.py line 25)
Separator(script) == IF script = "clean_notes_kv" THEN "<US>" ELSE "\f"

\* KEY_RE = ^[A-Za-z0-9_$]+$
KEY_RE_match(key) == key # <<>> /\ \A i \in 1..Len(key) : key[i] \in AlNum \cup {"_", "$"}

\* str.splitlines(): the pieces between line boundaries; an empty piece stands where
\* two boundaries meet (parse_block skips empty lines)
RECURSIVE splitlines(_, _, _)
splitlines(s, i, cur) ==
    IF i > Len(s) THEN <<cur>>
    ELSE IF s[i] \in {"\n", "\r", "\f"} THEN <<cur>> \o splitlines(s, i + 1, <<>>)
    ELSE splitlines(s, i + 1, Append(cur, s[i]))

\* the index of the first ":" of a line holding one
FirstColon(line) ==
    CHOOSE i \in 1..Len(line) : line[i] = ":" /\ \A j \in 1..(i - 1) : line[j] # ":"

\* a dict in insertion order: the keys as first assigned, and their values
EmptyRec == [keys |-> <<>>, val |-> EmptyDict, last_key |-> <<>>]

\* rec[key] = value
SetItem(rec, key, value) ==
    [keys |-> IF key \in Range(rec.keys) THEN rec.keys ELSE Append(rec.keys, key),
     val  |-> [k \in DOMAIN rec.val \cup {key} |-> IF k = key THEN value ELSE rec.val[k]],
     last_key |-> key]

\* one pass of the loop of parse_block over a line (last_key None is <<>>)
ParseLine(rec, raw) ==
    LET line == rstripSet(raw, Space)
    IN  IF line = <<>> THEN rec
        ELSE IF ":" \in Range(line)
                /\ KEY_RE_match(strip(SubSeq(line, 1, FirstColon(line) - 1)))
        THEN SetItem(rec, strip(SubSeq(line, 1, FirstColon(line) - 1)),
                     strip(SubSeq(line, FirstColon(line) + 1, Len(line))))
        ELSE IF rec.last_key # <<>>
        THEN LET sep == IF "\n" \in Range(rec.val[rec.last_key]) THEN <<"\n">> ELSE <<" ">>
             IN  SetItem(rec, rec.last_key, rec.val[rec.last_key] \o sep \o strip(line))
        ELSE rec

RECURSIVE ParseLines(_, _)
ParseLines(lines, rec) ==
    IF lines = <<>> THEN rec ELSE ParseLines(Tail(lines), ParseLine(rec, lines[1]))

\* parse_block: clean_notes_kv.py lines 68-84, lotus_sr_to_csv.py lines 59-78
parse_block(block) ==
    LET rec == ParseLines(splitlines(block, 1, <<>>), EmptyRec)
    IN  [keys |-> rec.keys, val |-> rec.val]

\* the union header in first-seen order
RECURSIVE UnionHeader(_, _)
UnionHeader(recs, hdr) ==
    IF recs = <<>> THEN hdr
    ELSE UnionHeader(Tail(recs),
            hdr \o SelectSeq(recs[1].keys, LAMBDA k : k \notin Range(hdr)))

\* the lines a Notes export is made of: field lines as Notes writes them, and lines
\* of narrative text inside a field's value
NotesLines == {
    [genuine |-> TRUE,  text |-> <<"C","o","m","p","a","n","y",":"," ","A","c","m","e">>],
    [genuine |-> TRUE,  text |-> <<"S","R","_","C","o","m","m","e","n","t",":"," ","s","e","e">>],
    [genuine |-> FALSE, text |-> <<"s","p","o","k","e"," ","t","o"," ","B","o","b">>],
    [genuine |-> FALSE, text |-> <<"H","e"," ","s","a","i","d",":"," ","c","a","l","l">>],
    [genuine |-> FALSE, text |-> <<"N","o","t","e",":"," ","c","a","l","l"," ","b","a","c","k">>],
    [genuine |-> FALSE, text |-> <<"1","0",":","3","0"," ","v","i","s","i","t">>],
    [genuine |-> FALSE, text |-> <<>>]}

MaxBlockLines == 2
MaxBlocks == 2

NotesBlocks == UNION {[1..n -> NotesLines] : n \in 0..MaxBlockLines}
NotesExports == UNION {[1..n -> NotesBlocks] : n \in 0..MaxBlocks}

\* the text of an export: the lines of a block one per line, the separator on a line
\* of its own between blocks
BlockText(b) == Join([i \in 1..Len(b) |-> b[i].text], <<"\n">>)
ExportText(export, sep) ==
    Join([i \in 1..Len(export) |-> BlockText(export[i])], <<"\n", sep, "\n">>)

\* the file is read and split into blocks; with no block the script exits
SplitBlocks ==
    /\ pc = "start"
    /\ LET pieces == SplitOn(ExportText(input.export, Separator(input.script)),
                             Separator(input.script), 1, <<>>)
           kept == SelectSeq(pieces, LAMBDA b : strip(b) # <<>>)
       IN  /\ blocks' = [i \in 1..Len(kept) |-> strip(kept[i])]
           /\ pc' = IF kept = <<>> THEN "exit" ELSE "parse"
    /\ UNCHANGED <<structFile, tables, rowVars, input, call, records, header, table, matchVars>>

\* records = [parse_block(b) for b in blocks], a block at a time
ParseBlock ==
    /\ pc = "parse" /\ Len(records) < Len(blocks)
    /\ records' = Append(records, parse_block(blocks[Len(records) + 1]))
    /\ UNCHANGED <<pc, structFile, tables, rowVars, input, call, blocks, header, table, matchVars>>

\* the header is built and the table written
WriteTable ==
    /\ pc = "parse" /\ Len(records) = Len(blocks)
    /\ header' = UnionHeader(records, <<>>)
    /\ table' = [i \in 1..Len(records) |->
                    [j \in 1..Len(header') |-> Get(records[i].val, header'[j], <<>>)]]
    /\ pc' = "notes_done"
    /\ UNCHANGED <<structFile, tables, rowVars, input, call, blocks, records, matchVars>>

InitNotes ==
    /\ pc = "start"
    /\ structFile = <<>>
    /\ STRUCT = <<>>
    /\ TITLE_BY_CODE = EmptyDict
    /\ NAICS_CHOICES = <<>>
    /\ TITLE_TO_CODE = EmptyDict
    /\ RowsIdle
    /\ NotesIdle
    /\ MatchIdle
    /\ input \in {[script |-> sc, export |-> e] : sc \in NotesScripts, e \in NotesExports}
    /\ call = NoCall

NextNotes == SplitBlocks \/ ParseBlock \/ WriteTable

SpecNotes == InitNotes /\ [][NextNotes]_vars

-----------------------------------------------------------------------------
(* find_matching_company.py: the five best company matches of every tracker row *)

TOP_K == 5
THRESH == 80

\* the columns of Companies.csv the fill loop copies (lines 117-123); the tracker
\* column "Matched<col><suff>" of rank n is out[n][col] below
NameCols == <<"CompNameCommon", "CompNameLegal", "CompNameAlias">>
CompanyCols == NameCols \o <<"Address", "PostalCode", "City", "Province", "Contact">>

\* range(1, 6) of line 81
Ranks == 1..5

\* lines 40-67; the blank test is lines 47-48, and the rest of the function (fold,
\* lower-case, "&" to " and ", corporate suffixes and punctuation to spaces, noise
\* words dropped) is tabulated for the names of the files below
normalise(text) ==
    IF isna(text) \/ strip(str(text)) = <<>> THEN <<>>
    ELSE CASE str(text) = <<"A", "c", "m", "e", " ", "L", "t", "d", ".">> -> <<"a", "c", "m", "e">>
         [] str(text) = <<"A", "c", "m", "e", " ", "H", "o", "l", "d", "i", "n", "g", "s">> -> <<"a", "c", "m", "e">>
         [] str(text) = <<"A", "c", "m", "e", " ", "T", "o", "o", "l", "s">> -> <<"a", "c", "m", "e", " ", "t", "o", "o", "l", "s">>
         [] str(text) = <<"A", "c", "m", "e", " ", "T", "o", "o", "l", "s", " ", "I", "n", "c">> -> <<"a", "c", "m", "e", " ", "t", "o", "o", "l", "s">>
         [] str(text) = <<"T", "o", "o", "l", "s", " ", "&", " ", "C", "o">> -> <<"t", "o", "o", "l", "s", " ", "a", "n", "d">>
         [] str(text) = <<"A", "c", "m", "e", "-", "T", "o", "o", "l">> -> <<"a", "c", "m", "e", " ", "t", "o", "o", "l">>
         [] str(text) = <<"A", "k", "m", "e", " ", "T", "o", "o", "l", "s">> -> <<"a", "k", "m", "e", " ", "t", "o", "o", "l", "s">>
         [] str(text) = <<"L", "t", "d", ".">> -> <<>>
         [] str(text) = <<"1", "2", " ", "M", "a", "i", "n", " ", "S", "t">> -> <<"1", "2", " ", "m", "a", "i", "n", " ", "s", "t">>

\* Companies.csv as pd.read_csv gives it: an empty cell is NaN
FewCompanies == <<
    [CompNameCommon |-> Str(<<"A", "c", "m", "e", " ", "L", "t", "d", ".">>),
     CompNameLegal |-> PyNaN,
     CompNameAlias |-> PyNaN,
     Address |-> Str(<<"1", "2", " ", "M", "a", "i", "n", " ", "S", "t">>),
     PostalCode |-> PyNaN, City |-> PyNaN, Province |-> PyNaN, Contact |-> PyNaN],
    [CompNameCommon |-> Str(<<"T", "o", "o", "l", "s", " ", "&", " ", "C", "o">>),
     CompNameLegal |-> PyNaN,
     CompNameAlias |-> PyNaN,
     Address |-> PyNaN,
     PostalCode |-> PyNaN, City |-> PyNaN, Province |-> PyNaN, Contact |-> PyNaN]>>

ManyCompanies == <<
    [CompNameCommon |-> Str(<<"A", "c", "m", "e", " ", "L", "t", "d", ".">>),
     CompNameLegal |-> PyNaN,
     CompNameAlias |-> PyNaN,
     Address |-> Str(<<"1", "2", " ", "M", "a", "i", "n", " ", "S", "t">>),
     PostalCode |-> PyNaN, City |-> PyNaN, Province |-> PyNaN, Contact |-> PyNaN],
    [CompNameCommon |-> Str(<<"T", "o", "o", "l", "s", " ", "&", " ", "C", "o">>),
     CompNameLegal |-> Str(<<"A", "c", "m", "e", " ", "H", "o", "l", "d", "i", "n", "g", "s">>),
     CompNameAlias |-> PyNaN,
     Address |-> PyNaN,
     PostalCode |-> PyNaN, City |-> PyNaN, Province |-> PyNaN, Contact |-> PyNaN],
    [CompNameCommon |-> Str(<<"T", "o", "o", "l", "s", " ", "&", " ", "C", "o">>),
     CompNameLegal |-> PyNaN,
     CompNameAlias |-> PyNaN,
     Address |-> PyNaN,
     PostalCode |-> PyNaN, City |-> PyNaN, Province |-> PyNaN, Contact |-> PyNaN],
    [CompNameCommon |-> Str(<<"A", "c", "m", "e", "-", "T", "o", "o", "l">>),
     CompNameLegal |-> PyNaN,
     CompNameAlias |-> Str(<<" ", " ">>),
     Address |-> PyNaN,
     PostalCode |-> PyNaN, City |-> PyNaN, Province |-> PyNaN, Contact |-> PyNaN],
    [CompNameCommon |-> Str(<<"A", "k", "m", "e", " ", "T", "o", "o", "l", "s">>),
     CompNameLegal |-> PyNaN,
     CompNameAlias |-> PyNaN,
     Address |-> PyNaN,
     PostalCode |-> PyNaN, City |-> PyNaN, Province |-> PyNaN, Contact |-> PyNaN],
    [CompNameCommon |-> Str(<<"A", "c", "m", "e", " ", "T", "o", "o", "l", "s", " ", "I", "n", "c">>),
     CompNameLegal |-> PyNaN,
     CompNameAlias |-> PyNaN,
     Address |-> PyNaN,
     PostalCode |-> PyNaN, City |-> PyNaN, Province |-> PyNaN, Contact |-> PyNaN]>>

CompanyFiles == {<<>>, FewCompanies, ManyCompanies}

\* the Company column of FullReprisalTracker.csv
MaxTrackerRows == 2
TrackerQueries == {PyNaN, Str(<<"A", "c", "m", "e", " ", "T", "o", "o", "l", "s">>), Str(<<"L", "t", "d", ".">>)}
TrackerFiles == UNION {[1..n -> TrackerQueries] : n \in 0..MaxTrackerRows}

\* rapidfuzz fuzz.token_set_ratio(q, p) on normalised names: 0 when either string is
\* empty, 100 when one token set holds the other, and otherwise a ratio below 100 (free)
rf_token_set_ratio(q, p, free) ==
    IF q = <<>> \/ p = <<>> THEN 0
    ELSE IF Range(split(q)) \subseteq Range(split(p)) \/ Range(split(p)) \subseteq Range(split(q))
         THEN 100
         ELSE free

\* the scores the scorer may give a pair of names that share no such token set
MatchFreeScores == {THRESH - 1, THRESH}

\* the normalised names of a company file, and the normalised queries of a tracker
NormNames(file) == {normalise(file[i][NameCols[c]]) : i \in 1..Len(file), c \in 1..Len(NameCols)}
NormQueries(file) == {normalise(file[i]) : i \in 1..Len(file)}

\* the scorer as a table: query -> name -> score
MatchSims(cfile, tfile) ==
    {[q \in NormQueries(tfile) |-> [p \in NormNames(cfile) |-> rf_token_set_ratio(q, p, free[p])]] :
        free \in [NormNames(cfile) -> MatchFreeScores]}

\* ndarray.argsort(): the indices (0-based) in an order of ascending score; the
\* default sort is not stable, so equal scores come in any order
RECURSIVE argsort(_, _)
argsort(scores, left) ==
    IF left = {} THEN {<<>>}
    ELSE UNION {{<<i - 1>> \o rest : rest \in argsort(scores, left \ {i})} :
                    i \in {j \in left : \A k \in left : scores[j] <= scores[k]}}

\* a slice that keeps the ascending order: a mutant
TopSliceAscending(order) ==
    SubSeq(order, Max(1, Len(order) - TOP_K + 1), Len(order))

\* [-TOP_K:][::-1] of line 107: the last TOP_K indices, best first
TopSlice(order) ==
    LET last == SubSeq(order, Max(1, Len(order) - TOP_K + 1), Len(order))
    IN  [i \in 1..Len(last) |-> last[Len(last) + 1 - i]]

\* np.maximum.reduce of the three score vectors, line 104
BestScores(cs, sim, row_norm) ==
    [i \in 1..Len(cs) |->
        Max(Max(sim[row_norm][cs[i].norm_CompNameCommon], sim[row_norm][cs[i].norm_CompNameLegal]),
            sim[row_norm][cs[i].norm_CompNameAlias])]

\* lines 94-108: the lists of (company index, score) top5 may return
top5(row_norm, cs, sim) ==
    IF row_norm = <<>> THEN {<<>>}
    ELSE LET best_scores == BestScores(cs, sim, row_norm)
         IN  {LET top == TopSlice(order)
                  all == [n \in 1..Len(top) |-> <<top[n], best_scores[top[n] + 1]>>]
              IN  SelectSeq(all, LAMBDA pr : pr[2] >= THRESH) :
                 order \in argsort(best_scores, 1..Len(cs))}

\* lines 7-8 and 69-88: read the two files, add the norm_ columns and norm_query,
\* and pre-allocate the Matched columns of the five ranks with ""
LoadData ==
    /\ pc = "start"
    /\ companies' = [i \in 1..Len(input.companies) |->
                        [row |-> input.companies[i],
                         norm_CompNameCommon |-> normalise(input.companies[i].CompNameCommon),
                         norm_CompNameLegal |-> normalise(input.companies[i].CompNameLegal),
                         norm_CompNameAlias |-> normalise(input.companies[i].CompNameAlias)]]
    /\ tracker' = [i \in 1..Len(input.tracker) |->
                        [Company |-> input.tracker[i],
                         norm_query |-> normalise(input.tracker[i]),
                         out |-> [n \in Ranks |-> [c \in Range(CompanyCols) |-> Str(<<>>)]]]]
    /\ ridx' = 0
    /\ pc' = "fill"
    /\ UNCHANGED <<structFile, tables, rowVars, input, call, notesVars, saved>>

\* lines 111-123: one tracker row; rank n of top5's list fills the columns of rank n
FillRow ==
    /\ pc = "fill"
    /\ ridx < Len(tracker)
    /\ LET qnorm == tracker[ridx + 1].norm_query
       IN  \E ret \in top5(qnorm, companies, input.sim) :
            /\ tracker' = [tracker EXCEPT ![ridx + 1].out =
                             [n \in Ranks |->
                                 IF n <= Len(ret)
                                 THEN [c \in Range(CompanyCols) |-> companies[ret[n][1] + 1].row[c]]
                                 ELSE @[n]]]
            /\ call' = [fn |-> "top5",
                        arg |-> [row_norm |-> qnorm, ridx |-> ridx],
                        ret |-> ret]
    /\ ridx' = ridx + 1
    /\ UNCHANGED <<pc, structFile, tables, rowVars, input, notesVars, companies, saved>>

\* DataFrame.to_csv writes a NaN cell as the empty string
to_csv_cell(x) == IF isna(x) THEN <<>> ELSE str(x)

\* lines 125-127: drop norm_query and write the tracker
Save ==
    /\ pc = "fill"
    /\ ridx = Len(tracker)
    /\ saved' = [i \in 1..Len(tracker) |->
                    [Company |-> to_csv_cell(tracker[i].Company),
                     out |-> [n \in Ranks |->
                                [c \in Range(CompanyCols) |-> to_csv_cell(tracker[i].out[n][c])]]]]
    /\ pc' = "match_done"
    /\ UNCHANGED <<structFile, tables, rowVars, input, call, notesVars, companies, tracker, ridx>>

InitMatch ==
    /\ pc = "start"
    /\ structFile = <<>>
    /\ STRUCT = <<>>
    /\ TITLE_BY_CODE = EmptyDict
    /\ NAICS_CHOICES = <<>>
    /\ TITLE_TO_CODE = EmptyDict
    /\ RowsIdle
    /\ NotesIdle
    /\ MatchIdle
    /\ \E cfile \in CompanyFiles, tfile \in TrackerFiles :
        \E sim \in MatchSims(cfile, tfile) :
            input = [companies |-> cfile, tracker |-> tfile, sim |-> sim]
    /\ call = NoCall

NextMatch == LoadData \/ FillRow \/ Save

SpecMatch == InitMatch /\ [][NextMatch]_vars

-----------------------------------------------------------------------------
(* Claims about the hierarchy expander, under SpecChain *)

\* the prefix width of each slot of split_chain's result
LevelWidth == [k \in ChainKeys |->
    CASE k = "Sector" -> 2 [] k = "Subsector" -> 3 [] k = "Industry_group" -> 4
      [] k = "Industry" -> 5 [] OTHER -> 6]

\* the key a slot is looked up under: the prefix, zero-padded on the right
SlotKey(code6, k) ==
    IF LevelWidth[k] = 6 THEN code6 ELSE ljust0(Slice(code6, 0, LevelWidth[k]), 6)

AncestorSlots == {"Sector", "Subsector", "Industry_group", "Industry", "Canadian_industry"}

FileCodes == {structFile[i].Code : i \in 1..Len(structFile)}

FileTitle(code) == structFile[CHOOSE i \in 1..Len(structFile) : structFile[i].Code = code].Class_title

\* the call was split_chain on a 6-digit code all of whose 2- to 6-digit prefixes are rows of the file
CompleteChainCall ==
    /\ call.fn = "split_chain"
    /\ call.arg.ty = "str" /\ isdigit(call.arg.v) /\ Len(call.arg.v) = 6
    /\ \A n \in 2..6 : Slice(call.arg.v, 0, n) \in FileCodes

\* C3: on a 6-digit code with a complete ancestor chain in the loaded file, every
\* slot Sector .. Canadian_industry is the non-empty title of the row whose Code is
\* the corresponding prefix of the code.
C3_CompleteChainTitles ==
    CompleteChainCall =>
        \A k \in AncestorSlots :
            /\ call.ret[k] # <<>>
            /\ call.ret[k] = FileTitle(Slice(call.arg.v, 0, LevelWidth[k]))

\* C4: split_chain never raises and returns all six slots; a non-string or
\* non-digit code gives "" everywhere; for a digit code a slot is "" when its
\* zero-right-padded prefix is no key of TITLE_BY_CODE, and the title under that
\* key otherwise, whatever the other slots hold.
C4_SplitChainTotal ==
    call.fn = "split_chain" =>
        /\ DOMAIN call.ret = ChainKeys
        /\ (call.arg.ty # "str" \/ ~isdigit(call.arg.v)) =>
                \A k \in ChainKeys : call.ret[k] = <<>>
        /\ (call.arg.ty = "str" /\ isdigit(call.arg.v)) =>
                \A k \in ChainKeys :
                    LET key == SlotKey(zfill(call.arg.v, 6), k)
                    IN  call.ret[k] = IF key \in DOMAIN TITLE_BY_CODE
                                      THEN TITLE_BY_CODE[key] ELSE <<>>

\* a digit code with one slot found and another slot missing from the index
C4_Witness ==
    /\ call.fn = "split_chain"
    /\ call.arg.ty = "str" /\ isdigit(call.arg.v)
    /\ DOMAIN call.ret = ChainKeys
    /\ call.ret["Sector"] = <<>>
    /\ call.ret["Industry"] # <<>>

-----------------------------------------------------------------------------
(* Claims about the fuzzy matcher, under SpecFuzzy *)

\* the call was fuzzy_naics on a non-blank string against a non-empty list
FuzzyCall ==
    /\ call.fn = "fuzzy_naics"
    /\ call.arg.raw_text.ty = "str" /\ strip(call.arg.raw_text.v) # <<>>
    /\ call.arg.choices # <<>>

\* the highest similarity between the query and any phrase of the list
HighestSim == CHOOSE m \in {call.arg.sim[p] : p \in Range(call.arg.choices)} :
                  \A p \in Range(call.arg.choices) : call.arg.sim[p] <= m

\* C1: for a non-blank query, the result is non-null (a phrase with the highest
\* similarity, the code the lookup holds for it, that similarity) when the highest
\* similarity is >= cutoff, equality included, and (None, None, 0) when it is below.
C1_CutoffDecides ==
    FuzzyCall =>
        IF HighestSim >= call.arg.cutoff
        THEN /\ call.ret[2].ty = "str"
             /\ call.ret[2].v \in Range(call.arg.choices)
             /\ call.arg.sim[call.ret[2].v] = HighestSim
             /\ call.ret[3] = HighestSim
             /\ call.ret[1] = (IF call.ret[2].v \in DOMAIN call.arg.code_lookup
                               THEN Str(call.arg.code_lookup[call.ret[2].v]) ELSE PyNone)
        ELSE call.ret = NullTriad

\* a match whose score is exactly the cutoff
C1_Witness ==
    /\ FuzzyCall
    /\ HighestSim = call.arg.cutoff
    /\ call.ret[1].ty = "str"
    /\ call.ret[3] = call.arg.cutoff

\* C7: among several phrases sharing the highest score the one first in list
\* order is returned.
C7_FirstOfTies ==
    (FuzzyCall /\ call.ret # NullTriad) =>
        \E i \in 1..Len(call.arg.choices) :
            /\ call.ret[2] = Str(call.arg.choices[i])
            /\ call.arg.sim[call.arg.choices[i]] = HighestSim
            /\ \A j \in 1..(i - 1) : call.arg.sim[call.arg.choices[j]] < HighestSim

\* two different phrases tie for the best score and the earlier one is returned
C7_Witness ==
    /\ FuzzyCall /\ call.ret # NullTriad
    /\ \E i, j \in 1..Len(call.arg.choices) :
        /\ i < j
        /\ call.arg.choices[i] # call.arg.choices[j]
        /\ call.arg.sim[call.arg.choices[i]] = HighestSim
        /\ call.arg.sim[call.arg.choices[j]] = HighestSim
        /\ call.ret[2] = Str(call.arg.choices[i])

-----------------------------------------------------------------------------
(* Claims about the normaliser, under SpecClean *)

\* C5: clean_text is idempotent: applied to its own output it returns that output.
C5_Idempotent ==
    call.fn = "clean_text_again" => call.ret = call.arg

-----------------------------------------------------------------------------
(* Claims about the row loop, under SpecRows *)

Processed == 1..idx

\* the row's NAICS_Code cell holds non-blank text: an existing classification
HasExisting(i) ==
    /\ "NAICS_Code" \in df.columns
    /\ df.rows[i]["NAICS_Code"].ty = "str"
    /\ strip(df.rows[i]["NAICS_Code"].v) # <<>>

\* the row has no existing classification: no NAICS_Code column, a null cell or a blank one
NoExisting(i) ==
    \/ "NAICS_Code" \notin df.columns
    \/ isna(df.rows[i]["NAICS_Code"])
    \/ strip(str(df.rows[i]["NAICS_Code"])) = <<>>

\* the tables the scorer may give for the row's cleaned source text
RowTables(i) == SimTables(clean_text(Str(RawSrc(df, df.rows[i]))), NAICS_CHOICES, RowFreeScores)

\* C2 as stated: a row with an existing classification gets the fresh match when
\* the fresh match scores strictly higher than the existing title against the
\* cleaned source text, and keeps the existing classification otherwise.
C2_HigherScoreWins ==
    \A i \in Processed : (HasExisting(i) /\ Existing(df, df.rows[i]) \in DOMAIN TITLE_BY_CODE) =>
        \A sim \in RowTables(i), free \in RowFreeScores :
            LET fresh == FreshMatch(df, df.rows[i], sim)
                old == ExistingScore(df, df.rows[i], free)
            IN  newcols["NAICS_Code"][i] =
                    IF fresh[1].ty = "str" /\ fresh[3] > old
                    THEN fresh[1].v ELSE Existing(df, df.rows[i])

\* C2 amended: a row with an existing classification keeps it, whatever a fresh
\* match would score: the code written is the trimmed existing code and the title
\* is the one TITLE_BY_CODE holds for it, "" if none; the scorer is not consulted.
C2_ExistingAlwaysKept ==
    \A i \in Processed : HasExisting(i) =>
        /\ newcols["NAICS_Code"][i] = strip(df.rows[i]["NAICS_Code"].v)
        /\ newcols["NAICS_Desc"][i] =
                Get(TITLE_BY_CODE, strip(df.rows[i]["NAICS_Code"].v), <<>>)
        /\ DOMAIN scorer \subseteq
                {clean_text(Str(RawSrc(df, df.rows[j]))) : j \in {k \in Processed : ~HasExisting(k)}}

\* an existing classification is kept although a fresh match would score higher
\* than the existing title
C2_Witness ==
    \E i \in Processed :
        /\ HasExisting(i)
        /\ newcols["NAICS_Code"][i] = strip(df.rows[i]["NAICS_Code"].v)
        /\ newcols["NAICS_Desc"][i] # <<>>
        /\ \E sim \in RowTables(i), free \in RowFreeScores :
            LET fresh == FreshMatch(df, df.rows[i], sim)
            IN  /\ fresh[1].ty = "str"
                /\ fresh[1].v # newcols["NAICS_Code"][i]
                /\ fresh[3] > ExistingScore(df, df.rows[i], free)

\* the source text as the claim selects it: null, missing and blank cells skipped
ClaimedSource(i) == first_non_blank_notna(df, df.rows[i], SourceCols)

\* C6: for a row without existing code the text matched is the first non-blank
\* cell among Imported_SiteDescription, SubSiteSICDesc, IndustryType, a missing,
\* null or whitespace-only cell being skipped; with all three blank the row gets
\* no match and the scorer is never consulted for it.
C6_FirstNonBlankSource ==
    /\ \A i \in Processed : NoExisting(i) =>
        LET q == clean_text(Str(ClaimedSource(i)))
        IN  IF ClaimedSource(i) = <<>> \/ strip(q) = <<>>
            THEN newcols["NAICS_Code"][i] = <<>>
            ELSE /\ q \in DOMAIN scorer
                 /\ newcols["NAICS_Code"][i] =
                        Join(FromFuzzy(fuzzy_naics(Str(q), NAICS_CHOICES, TITLE_TO_CODE,
                                                   FUZZY_THRESHOLD, scorer[q])).codes, <<";">>)
    /\ DOMAIN scorer \subseteq
            {clean_text(Str(ClaimedSource(i))) : i \in {j \in Processed : NoExisting(j)}}

-----------------------------------------------------------------------------
(* Claims about the phone number classifier, under SpecPhone *)

PhoneCall == call.fn = "extract_numbers" /\ call.arg.s.ty = "str"

\* the area code a number in national format shows, <<>> when it shows none
AreaCodeOf(f) ==
    IF Len(f) = 14 /\ f[1] = "(" /\ f[5] = ")" THEN SubSeq(f, 2, 4) ELSE <<>>

\* what a candidate of the digit-grouping pattern is owed in the result: the national
\* format when it parses, the text as matched when it does not
Entry(s, m, default_area) ==
    LET cleaned == _clean_local(Slice(s, m[1], m[2]), default_area)
    IN  IF ParseRaises(cleaned) THEN Slice(s, m[1], m[2]) ELSE FormatNational(cleaned)

\* the numbers the two passes of a call detected
Detected ==
    {MatcherFormatted(call.arg.s.v, m) : m \in call.arg.found}
        \cup {Entry(call.arg.s.v, m, call.arg.default_area) :
                m \in Range(FindIter(call.arg.s.v, 1))}

AllEntries == UNION {call.ret[k] : k \in DOMAIN call.ret}

LocalSpans(s) ==
    {m \in Range(FindIter(s, 1)) :
        /\ Len(OnlyDigits(Slice(s, m[1], m[2]))) = 7
        /\ s[m[1] + 1] \in Digits
        /\ (m[1] = 0 \/ s[m[1]] \notin Digits)
        /\ (m[2] = Len(s) \/ s[m[2] + 1] \notin Digits)}

\* the text with the local number at m written out with area code a
WithArea(s, m, a) == SubSeq(s, 1, m[1]) \o a \o <<"-">> \o SubSeq(s, m[1] + 1, Len(s))

\* C9: a text with a seven-digit local number and default area code A gives the
\* same bucket mapping as the same text with the number written as the ten-digit
\* number of area code A.
C9_LocalRepairEquivalence ==
    (PhoneCall /\ call.arg.default_area # <<>>) =>
        \A m \in LocalSpans(call.arg.s.v) :
            LET full == WithArea(call.arg.s.v, m, call.arg.default_area)
            IN  \E found \in SUBSET MatcherCandidates(full) :
                    extract_numbers(Str(full), call.arg.default_area, found) = call.ret

WindowOf(s, m) == lower(Slice(s, Max(0, m[1] - 40), m[2] + 15))
CueLabels(s, m) ==
    LET window == WindowOf(s, m)
    IN  {KEYWORDS[n].label : n \in {i \in 1..Len(KEYWORDS) : LabelHas(window, i)}}

\* the candidates of a call that parse as numbers and do not start with a toll-free code
PlainNumbers ==
    {m \in Range(FindIter(call.arg.s.v, 1)) :
        /\ ~ParseRaises(_clean_local(Slice(call.arg.s.v, m[1], m[2]), call.arg.default_area))
        /\ AreaGroup(Slice(call.arg.s.v, m[1], m[2])) \notin TOLL_FREE_CODES}

\* the (label, number) pairs of a result
Placed == UNION {{<<k, f>> : f \in call.ret[k]} : k \in DOMAIN call.ret}

-----------------------------------------------------------------------------
(* Claims about the output frame, under SpecRows *)

\* C12: the main output file holds every column of the input file with, row by
\* row, the value the input had; the run appends columns and changes no cell that
\* was there, a cell of an NAICS_Code column of the input included.
C12_OriginalColumnsPreserved ==
    pc = "done" =>
        /\ input.columns \subseteq written.main.columns
        /\ Len(written.main.rows) = Len(input.rows)
        /\ \A i \in 1..Len(input.rows) : \A c \in input.columns :
                written.main.rows[i][c] = input.rows[i][c]

-----------------------------------------------------------------------------
(* Further claims about the normaliser, under SpecClean *)

\* an input that is null, NaN, empty or white space only
BlankInput(x) ==
    \/ x.ty \in {"NoneType", "float"}
    \/ x.ty = "str" /\ \A i \in 1..Len(x.v) : x.v[i] \in Space

\* C13: for a null, NaN, empty or whitespace-only input clean_text returns the
\* empty string and runs none of its steps.
C13_BlankInputGivesEmpty ==
    (call.fn = "clean_text" /\ BlankInput(call.arg)) =>
        call.ret = <<>> /\ call.steps = 0

\* clean_text was called on NaN
C13_Witness ==
    call.fn = "clean_text" /\ call.arg = PyNaN /\ call.ret = <<>>

-----------------------------------------------------------------------------
(* The end-to-end example, under SpecEndToEnd *)

SoybeanText == <<"S","O","Y","B","E","A","N"," ","F","A","R","M","I","N","G"," ","/"," ","6","4","2"," ","p","e","r"," ","W","C","B">>
SoybeanPhrase == <<"s","o","y","b","e","a","n"," ","f","a","r","m","i","n","g">>
SoybeanCode == <<"1","1","1","1","1","0">>

\* C14: with "soybean farming" mapped to 111110 in the index, the text
\* "SOYBEAN FARMING / 642 per WCB" is cleaned to "Soybean Farming", the comment
\* "/ 642 per WCB" gone, and fuzzy_naics on it returns code 111110 with a score of at
\* least FUZZY_THRESHOLD.
C14_SoybeanEndToEnd ==
    (/\ call.fn = "clean_text+fuzzy_naics"
     /\ call.arg = SoybeanText
     /\ SoybeanPhrase \in DOMAIN TITLE_TO_CODE
     /\ TITLE_TO_CODE[SoybeanPhrase] = SoybeanCode) =>
        /\ call.desc_cln = <<"S","o","y","b","e","a","n"," ","F","a","r","m","i","n","g">>
        /\ call.ret[1] = Str(SoybeanCode)
        /\ call.ret[3] >= FUZZY_THRESHOLD

\* the example run against an index that holds other phrases as well
C14_Witness ==
    /\ call.fn = "clean_text+fuzzy_naics"
    /\ call.arg = SoybeanText
    /\ Len(NAICS_CHOICES) >= 3
    /\ call.ret = <<Str(SoybeanCode), Str(SoybeanPhrase), 100>>

-----------------------------------------------------------------------------
(* Claims about the Notes block parsers, under SpecNotes *)

\* the field names of an export: what stands before the colon of its field lines
GenuineKeys(export) ==
    {strip(SubSeq(l.text, 1, FirstColon(l.text) - 1)) :
        l \in {x \in UNION {Range(export[i]) : i \in 1..Len(export)} : x.genuine}}

\* C15: a line of narrative text with a colon in it makes no column; the header of
\* the table holds field names of the export only.
C15_HeaderHoldsFieldNamesOnly ==
    pc = "notes_done" => Range(header) \subseteq GenuineKeys(input.export)

-----------------------------------------------------------------------------
(* The final step of the normaliser, under SpecClean *)

\* C16: what clean_text returns is empty when only punctuation and white space are
\* left after its steps; a result that is not empty holds a letter or a digit.
C16_ResultHoldsLetterOrDigit ==
    call.fn = "clean_text" =>
        (call.ret # <<>> => \E i \in 1..Len(call.ret) : call.ret[i] \in AlNum)

-----------------------------------------------------------------------------
(* The reference index, under SpecFuzzy *)

\* the phrase and the padded code of row i of the structure file
RowPhrase(i) == lower(strip(structFile[i].Class_title))
RowCode(i) == zfill(structFile[i].Code, 6)

\* the rows that are the last of their phrase
LastOfPhrase == {i \in 1..Len(structFile) :
                    \A j \in (i + 1)..Len(structFile) : RowPhrase(j) # RowPhrase(i)}

\* C17: once the tables are built, NAICS_CHOICES holds one phrase per row of the
\* file, TITLE_TO_CODE maps a phrase to the code of the last row that has it, and a
\* fuzzy match on the phrase returns that code.
C17_LastWriteWins ==
    pc = "loaded" =>
        /\ Len(NAICS_CHOICES) = Len(structFile)
        /\ \A i \in 1..Len(structFile) : NAICS_CHOICES[i] = RowPhrase(i)
        /\ \A i \in LastOfPhrase : TITLE_TO_CODE[RowPhrase(i)] = RowCode(i)
        /\ (call.fn = "fuzzy_naics" /\ call.arg.code_lookup = TITLE_TO_CODE
                /\ call.ret[2] # PyNone) =>
            \E i \in LastOfPhrase :
                call.ret[2] = Str(RowPhrase(i)) /\ call.ret[1] = Str(RowCode(i))

\* a match on a phrase that two rows with different codes share returns the code of
\* the later row
C17_Witness ==
    /\ pc = "loaded"
    /\ call.fn = "fuzzy_naics"
    /\ call.arg.code_lookup = TITLE_TO_CODE
    /\ \E i, j \in 1..Len(structFile) :
        /\ i < j /\ j \in LastOfPhrase
        /\ RowPhrase(i) = RowPhrase(j)
        /\ RowCode(i) # RowCode(j)
        /\ call.ret[2] = Str(RowPhrase(j))
        /\ call.ret[1] = Str(RowCode(j))

-----------------------------------------------------------------------------
(* The company matcher, under SpecMatch *)

\* the scorer's values for the query and the three normalised names of company i
\* (1-based)
NameScores(q, i) == {input.sim[q][companies[i].norm_CompNameCommon],
                     input.sim[q][companies[i].norm_CompNameLegal],
                     input.sim[q][companies[i].norm_CompNameAlias]}

\* the highest of the three name scores of company i
CompanyScore(q, i) == CHOOSE m \in NameScores(q, i) : \A x \in NameScores(q, i) : x <= m

\* the columns of one rank of one row: filled when a name column holds a non-blank
\* string, blank when every column holds ""
RankFilled(cols) ==
    \E c \in 1..Len(NameCols) :
        cols[NameCols[c]].ty = "str" /\ strip(cols[NameCols[c]].v) # <<>>
RankBlank(cols) == \A c \in Range(CompanyCols) : cols[c] = Str(<<>>)

\* the same for a row of the written file
WrittenFilled(cols) == \E c \in 1..Len(NameCols) : strip(cols[NameCols[c]]) # <<>>
WrittenBlank(cols) == \A c \in Range(CompanyCols) : cols[c] = <<>>

\* C18: top5 returns at most TOP_K pairs (company index, score), the indices pairwise
\* distinct, the scores non-increasing, each at least THRESH and the highest of the
\* company's three name scores, no omitted company scoring higher than a listed one,
\* and nothing for an empty query; the tracker row gets the companies in that order,
\* so in every row, in memory and in the written file, the ranks 1..k are filled and
\* the ranks k+1..5 hold "".
C18_TopFiveMatches ==
    /\ call.fn = "top5" =>
        LET q == call.arg.row_norm
            ret == call.ret
            n == Len(input.companies)
            score == [i \in 1..n |-> CompanyScore(q, i)]
            listed == {ret[k][1] : k \in 1..Len(ret)}
            row == tracker[call.arg.ridx + 1]
        IN  /\ Len(ret) <= TOP_K
            /\ listed \subseteq 0..(n - 1)
            /\ \A j, k \in 1..Len(ret) : j < k => /\ ret[j][1] # ret[k][1]
                                                  /\ ret[j][2] >= ret[k][2]
            /\ \A k \in 1..Len(ret) : /\ ret[k][2] >= THRESH
                                      /\ ret[k][2] = score[ret[k][1] + 1]
            /\ \A i \in (0..(n - 1)) \ listed :
                \A k \in 1..Len(ret) : score[i + 1] <= ret[k][2]
            /\ q = <<>> => ret = <<>>
            /\ \A rank \in Ranks :
                IF rank <= Len(ret)
                THEN /\ RankFilled(row.out[rank])
                     /\ \A c \in Range(CompanyCols) :
                            row.out[rank][c] = input.companies[ret[rank][1] + 1][c]
                ELSE RankBlank(row.out[rank])
    /\ \A r \in 1..Len(tracker) :
        \E k \in 0..TOP_K :
            \A rank \in Ranks : IF rank <= k THEN RankFilled(tracker[r].out[rank])
                                ELSE RankBlank(tracker[r].out[rank])
    /\ \A r \in 1..Len(saved) :
        \E k \in 0..TOP_K :
            \A rank \in Ranks : IF rank <= k THEN WrittenFilled(saved[r].out[rank])
                                ELSE WrittenBlank(saved[r].out[rank])

\* six companies clear THRESH, five are listed with unequal scores, and the file is
\* written
C18_Witness ==
    /\ pc = "match_done"
    /\ call.fn = "top5"
    /\ Len(call.ret) = TOP_K
    /\ call.ret[1][2] > call.ret[TOP_K][2]
    /\ Cardinality({i \in 1..Len(input.companies) :
                        CompanyScore(call.arg.row_norm, i) >= THRESH}) > TOP_K
    /\ WrittenFilled(saved[call.arg.ridx + 1].out[TOP_K])

-----------------------------------------------------------------------------
(* The toll-free rule and the order of the keywords, under SpecPhone *)

\* the numbers of a result that stand somewhere under a toll-free keyword
TollFreeCued ==
    {Entry(call.arg.s.v, m, call.arg.default_area) :
        m \in {o \in Range(FindIter(call.arg.s.v, 1)) :
                    "tollfree" \in CueLabels(call.arg.s.v, o)}}

\* C19: a number that the area-code rule, not a keyword, put in the tollfree bucket
\* shows a toll-free area code in its final format; a seven-digit local number
\* repaired with the default area code is not put there by that rule.
C19_TollFreeByAreaCodeOnly ==
    (PhoneCall /\ "tollfree" \in DOMAIN call.ret) =>
        \A f \in call.ret["tollfree"] \ TollFreeCued : AreaCodeOf(f) \in TOLL_FREE_CODES

\* the first label, in the order of KEYWORDS, among the labels of a set of cues
FirstCue(cues) ==
    KEYWORDS[CHOOSE n \in 1..Len(KEYWORDS) :
                /\ KEYWORDS[n].label \in cues
                /\ \A j \in 1..(n - 1) : KEYWORDS[j].label \notin cues].label

\* the candidates of a call, of either pass, that the toll-free rule leaves alone
\* and whose window holds a keyword: the entry each is owed and the labels of its cues
CuedNumbers ==
    LET open(spans) == {o \in spans : AreaGroup(Slice(call.arg.s.v, o[1], o[2])) \notin TOLL_FREE_CODES}
        pass1 == {<<MatcherFormatted(call.arg.s.v, m), CueLabels(call.arg.s.v, m)>> :
                    m \in open(call.arg.found)}
        pass2 == {<<Entry(call.arg.s.v, m, call.arg.default_area), CueLabels(call.arg.s.v, m)>> :
                    m \in open(Range(FindIter(call.arg.s.v, 1)))}
    IN  {c \in pass1 \cup pass2 : c[2] # {}}

====
